---- MODULE Spec2Model ----
(***************************************************************************)
(* CyberHeaders: the analysis and scoring engine of the website scanner.   *)
(*                                                                         *)
(* The module models api/utils/{headers,ssl,dns,wordpress,gemini,          *)
(* analysis}.py.  Python dicts are TLA+ functions with string domains, so  *)
(* an optional key ("error", "wordpress_issues", "gemini_analysis") is a   *)
(* key that is or is not in DOMAIN.  Python lists are sequences, Python    *)
(* str values are TLA+ strings (Len, SubSeq and \o apply to them).         *)
(***************************************************************************)
EXTENDS Integers, Sequences, FiniteSets, TLC

(***************************************************************************)
(* Python built-ins used by the source.                                    *)
(***************************************************************************)

\* dict.get(key, default)
Get(d, k, default) == IF k \in DOMAIN d THEN d[k] ELSE default

\* dict[key] = value on a dict that may or may not have the key
Put(d, k, v) == [x \in (DOMAIN d) \cup {k} |-> IF x = k THEN v ELSE d[x]]

\* `sub in s` for two str values
Contains(sub, s) ==
    \E i \in 1..(Len(s) - Len(sub) + 1) : SubSeq(s, i, i + Len(sub) - 1) = sub

\* str.lower(), restricted to ASCII
UpperToLower ==
    [c \in {"A","B","C","D","E","F","G","H","I","J","K","L","M",
            "N","O","P","Q","R","S","T","U","V","W","X","Y","Z"} |->
        CASE c = "A" -> "a" [] c = "B" -> "b" [] c = "C" -> "c" [] c = "D" -> "d"
          [] c = "E" -> "e" [] c = "F" -> "f" [] c = "G" -> "g" [] c = "H" -> "h"
          [] c = "I" -> "i" [] c = "J" -> "j" [] c = "K" -> "k" [] c = "L" -> "l"
          [] c = "M" -> "m" [] c = "N" -> "n" [] c = "O" -> "o" [] c = "P" -> "p"
          [] c = "Q" -> "q" [] c = "R" -> "r" [] c = "S" -> "s" [] c = "T" -> "t"
          [] c = "U" -> "u" [] c = "V" -> "v" [] c = "W" -> "w" [] c = "X" -> "x"
          [] c = "Y" -> "y" [] c = "Z" -> "z"]

RECURSIVE Lower(_)
Lower(s) ==
    IF s = "" THEN ""
    ELSE LET c == SubSeq(s, 1, 1)
         IN  (IF c \in DOMAIN UpperToLower THEN UpperToLower[c] ELSE c)
                 \o Lower(SubSeq(s, 2, Len(s)))

\* str.strip(), restricted to blanks
RECURSIVE Strip(_)
Strip(s) ==
    IF s = "" THEN ""
    ELSE IF SubSeq(s, 1, 1) = " " THEN Strip(SubSeq(s, 2, Len(s)))
    ELSE IF SubSeq(s, Len(s), Len(s)) = " " THEN Strip(SubSeq(s, 1, Len(s) - 1))
    ELSE s

\* str.split(sep) for a one-character separator
RECURSIVE Split(_, _)
Split(s, sep) ==
    IF \E i \in 1..Len(s) : SubSeq(s, i, i) = sep
    THEN LET i == CHOOSE i \in 1..Len(s) :
                    /\ SubSeq(s, i, i) = sep
                    /\ \A j \in 1..(i - 1) : SubSeq(s, j, j) # sep
         IN  <<SubSeq(s, 1, i - 1)>> \o Split(SubSeq(s, i + 1, Len(s)), sep)
    ELSE <<s>>

\* sep.join(list)
RECURSIVE Join(_, _)
Join(sep, l) ==
    IF l = <<>> THEN ""
    ELSE IF Len(l) = 1 THEN l[1]
    ELSE l[1] \o sep \o Join(sep, Tail(l))

\* [f"{prefix}{x}" for x in l]
Prefixed(prefix, l) == [i \in 1..Len(l) |-> prefix \o l[i]]

\* [c.strip() for c in l]
Stripped(l) == [i \in 1..Len(l) |-> Strip(l[i])]

Digits == {"0","1","2","3","4","5","6","7","8","9"}

DigitValue ==
    [c \in Digits |->
        CASE c = "0" -> 0 [] c = "1" -> 1 [] c = "2" -> 2 [] c = "3" -> 3
          [] c = "4" -> 4 [] c = "5" -> 5 [] c = "6" -> 6 [] c = "7" -> 7
          [] c = "8" -> 8 [] c = "9" -> 9]

\* int(s) for a str of decimal digits
RECURSIVE ParseInt(_)
ParseInt(s) ==
    IF s = "" THEN 0
    ELSE 10 * ParseInt(SubSeq(s, 1, Len(s) - 1)) + DigitValue[SubSeq(s, Len(s), Len(s))]

\* the longest prefix of s made of characters of the class cls (regex `[cls]*`)
RECURSIVE TakeWhile(_, _)
TakeWhile(s, cls) ==
    IF s # "" /\ SubSeq(s, 1, 1) \in cls
    THEN SubSeq(s, 1, 1) \o TakeWhile(SubSeq(s, 2, Len(s)), cls)
    ELSE ""

\* re.search(lit + "[cls]+", s): the positions i at which the literal lit
\* is followed by at least one character of the class
MatchStarts(lit, cls, s) ==
    {i \in 1..(Len(s) - Len(lit)) :
        /\ SubSeq(s, i, i + Len(lit) - 1) = lit
        /\ SubSeq(s, i + Len(lit), i + Len(lit)) \in cls}

Min(S) == CHOOSE x \in S : \A y \in S : x <= y

(***************************************************************************)
(* api/utils/headers.py                                                    *)
(***************************************************************************)

essential_headers ==
    << "content-security-policy", "x-content-type-options", "x-frame-options",
       "strict-transport-security", "x-xss-protection", "referrer-policy",
       "permissions-policy", "cross-origin-opener-policy",
       "cross-origin-embedder-policy", "cross-origin-resource-policy" >>

deprecated_headers ==
    << "public-key-pins", "x-aspnet-version", "x-powered-by", "server",
       "x-webkit-csp", "x-content-security-policy" >>

unsafe_directives == << "unsafe-inline", "unsafe-eval", "unsafe-hashes" >>
important_directives == << "default-src", "script-src", "object-src", "base-uri" >>
permissive_sources == << "*", "'unsafe-inline'", "data:", "http:", "ftp:" >>

analyze_csp(csp_header) ==
    LET present(d) == Contains(d, csp_header)
        absent(d) == ~Contains(d, csp_header)
    IN  Prefixed("CSP contains unsafe directive: ",
                 SelectSeq(unsafe_directives, present))
          \o Prefixed("CSP missing important directive: ",
                      SelectSeq(important_directives, absent))
          \o Prefixed("CSP contains overly permissive source: ",
                      SelectSeq(permissive_sources, present))

analyze_cookies(cookie_header) ==
    LET cookies == Stripped(Split(cookie_header, ";"))
        has(word) == \E i \in 1..Len(cookies) : Contains(word, Lower(cookies[i]))
        isSameSite(c) == Contains("samesite", Lower(c))
        withSameSite == SelectSeq(cookies, isSameSite)
        \* next((c for c in cookies if "samesite" in c.lower()), None)
        samesite == IF withSameSite = <<>> THEN "" ELSE withSameSite[1]
    IN  (IF ~has("secure") THEN <<"Missing Secure flag">> ELSE <<>>)
          \o (IF ~has("httponly") THEN <<"Missing HttpOnly flag">> ELSE <<>>)
          \o (IF samesite = "" THEN <<"Missing SameSite attribute">>
              ELSE IF Contains("samesite=none", Lower(samesite)) /\ ~has("secure")
                   THEN <<"SameSite=None without Secure flag">>
                   ELSE <<>>)
          \o (IF has("domain=") THEN <<"Overly broad domain setting">> ELSE <<>>)

analyze_cors(acao_header) ==
    IF acao_header = "*"
    THEN <<"Overly permissive CORS policy: Access-Control-Allow-Origin: *">>
    ELSE <<>>

HstsMinMaxAge == 31536000

analyze_hsts(hsts_header) ==
    LET starts == MatchStarts("max-age=", Digits, hsts_header)
        \* re.search(r"max-age=(\d+)", hsts_header).group(1)
        group1 == LET i == Min(starts)
                  IN  TakeWhile(SubSeq(hsts_header, i + 8, Len(hsts_header)), Digits)
    IN  (IF ~Contains("max-age", hsts_header)
         THEN <<"HSTS missing max-age directive">>
         ELSE IF starts # {} /\ ParseInt(group1) < HstsMinMaxAge
              THEN <<"HSTS max-age too short: " \o ToString(ParseInt(group1))
                        \o " (should be at least 31536000)">>
              ELSE <<>>)
          \o (IF ~Contains("includesubdomains", Lower(hsts_header))
              THEN <<"HSTS missing includeSubDomains directive">>
              ELSE <<>>)

check_additional_headers(headers) ==
    [clear_site_data |-> "clear-site-data" \in DOMAIN headers,
     report_to       |-> "report-to" \in DOMAIN headers,
     feature_policy  |-> "feature-policy" \in DOMAIN headers,
     expect_ct       |-> "expect-ct" \in DOMAIN headers]

check_owasp_compliance(headers) ==
    [content_security_policy      |-> "content-security-policy" \in DOMAIN headers,
     x_content_type_options       |->
         Lower(Get(headers, "x-content-type-options", "")) = "nosniff",
     x_frame_options              |-> "x-frame-options" \in DOMAIN headers,
     strict_transport_security    |-> "strict-transport-security" \in DOMAIN headers,
     x_xss_protection             |-> "x-xss-protection" \in DOMAIN headers,
     referrer_policy              |-> "referrer-policy" \in DOMAIN headers,
     permissions_policy           |-> "permissions-policy" \in DOMAIN headers,
     cross_origin_opener_policy   |-> "cross-origin-opener-policy" \in DOMAIN headers,
     cross_origin_embedder_policy |-> "cross-origin-embedder-policy" \in DOMAIN headers,
     cross_origin_resource_policy |-> "cross-origin-resource-policy" \in DOMAIN headers]

\* the test of line 44 inverted: the essential headers that are there
analyze_headers_present(headers) ==
    LET there(h) == h \in DOMAIN headers
    IN  [missing_essential  |-> SelectSeq(essential_headers, there),
         deprecated         |-> SelectSeq(deprecated_headers, there),
         insecure           |-> <<>>,
         csp_issues         |-> <<>>,
         cookie_issues      |-> <<>>,
         cors_issues        |-> <<>>,
         hsts_issues        |-> <<>>,
         additional_headers |-> check_additional_headers(headers),
         owasp_compliance   |-> check_owasp_compliance(headers)]

\* an analysis that runs the CSP and HSTS evaluators whether or not the
\* response carries the header
analyze_headers_unguarded(headers) ==
    LET absent(h) == h \notin DOMAIN headers
        present(h) == h \in DOMAIN headers
    IN  [missing_essential  |-> SelectSeq(essential_headers, absent),
         deprecated         |-> SelectSeq(deprecated_headers, present),
         insecure           |-> <<>>,
         csp_issues         |->
             analyze_csp(Get(headers, "content-security-policy", "")),
         cookie_issues      |->
             IF "set-cookie" \in DOMAIN headers
             THEN analyze_cookies(headers["set-cookie"]) ELSE <<>>,
         cors_issues        |->
             IF "access-control-allow-origin" \in DOMAIN headers
             THEN analyze_cors(headers["access-control-allow-origin"]) ELSE <<>>,
         hsts_issues        |->
             analyze_hsts(Get(headers, "strict-transport-security", "")),
         additional_headers |-> check_additional_headers(headers),
         owasp_compliance   |-> check_owasp_compliance(headers)]

analyze_headers(headers) ==
    LET absent(h) == h \notin DOMAIN headers
        present(h) == h \in DOMAIN headers
    IN  [missing_essential  |-> SelectSeq(essential_headers, absent),
         deprecated         |-> SelectSeq(deprecated_headers, present),
         insecure           |-> <<>>,
         csp_issues         |->
             IF "content-security-policy" \in DOMAIN headers
             THEN analyze_csp(headers["content-security-policy"]) ELSE <<>>,
         cookie_issues      |->
             IF "set-cookie" \in DOMAIN headers
             THEN analyze_cookies(headers["set-cookie"]) ELSE <<>>,
         cors_issues        |->
             IF "access-control-allow-origin" \in DOMAIN headers
             THEN analyze_cors(headers["access-control-allow-origin"]) ELSE <<>>,
         hsts_issues        |->
             IF "strict-transport-security" \in DOMAIN headers
             THEN analyze_hsts(headers["strict-transport-security"]) ELSE <<>>,
         additional_headers |-> check_additional_headers(headers),
         owasp_compliance   |-> check_owasp_compliance(headers)]

(***************************************************************************)
(* api/utils/wordpress.py                                                  *)
(***************************************************************************)

\* a detection that looks at the headers alone
check_wordpress_by_headers(headers, body) ==
    LET anyNamesWordpress ==
            \E k \in DOMAIN headers : Contains("wordpress", Lower(headers[k]))
    IN  \/ /\ "x-powered-by" \in DOMAIN headers
           /\ Contains("wordpress", Lower(headers["x-powered-by"]))
        \/ /\ "link" \in DOMAIN headers
           /\ Contains("wp-json", Lower(headers["link"]))
        \/ anyNamesWordpress

check_wordpress(headers, body) ==
    \* any("wordpress" in v.lower() for v in headers.values())
    LET anyNamesWordpress ==
            \E k \in DOMAIN headers : Contains("wordpress", Lower(headers[k]))
    IN  \/ /\ "x-powered-by" \in DOMAIN headers
           /\ Contains("wordpress", Lower(headers["x-powered-by"]))
        \/ /\ "link" \in DOMAIN headers
           /\ Contains("wp-json", Lower(headers["link"]))
        \/ anyNamesWordpress
        \/ Contains("wp-content", Lower(body))
        \/ Contains("wp-includes", Lower(body))

wordpress_headers == << "x-wp-cron", "x-redirect-by", "x-pingback" >>

VersionChars == Digits \cup {"."}

\* the three version_patterns, each a literal followed by [0-9.]+ ; the
\* first has no group (group(0), the whole match, is reported), the other
\* two report group(1), the version number alone
version_patterns ==
    << [literal |-> "wordpress ", groups |-> 0],
       [literal |-> "wp-includes/js/wp-embed.js?ver=", groups |-> 1],
       [literal |-> "wp-includes/css/dist/block-library/style.min.css?ver=",
        groups |-> 1] >>

\* re.search(pattern, body, re.IGNORECASE) is not None
version_matches(pattern, body) ==
    MatchStarts(pattern.literal, VersionChars, Lower(body)) # {}

\* match.group(1) if len(match.groups()) > 0 else match.group(0)
version_of(pattern, body) ==
    LET i == Min(MatchStarts(pattern.literal, VersionChars, Lower(body)))
        n == Len(pattern.literal)
        number == TakeWhile(SubSeq(body, i + n, Len(body)), VersionChars)
    IN  IF pattern.groups > 0 THEN number
        ELSE SubSeq(body, i, i + n - 1) \o number

analyze_wordpress_headers(headers, body) ==
    LET present(h) == h \in DOMAIN headers
        \* any("admin-ajax.php" in v for v in headers.values())
        anyNamesAdminAjax ==
            \E k \in DOMAIN headers : Contains("admin-ajax.php", headers[k])
        matches(p) == version_matches(p, body)
        matching == SelectSeq(version_patterns, matches)
    IN  Prefixed("WordPress header exposed: ", SelectSeq(wordpress_headers, present))
          \o (IF "x-pingback" \in DOMAIN headers
              THEN <<"XML-RPC pingback endpoint exposed (consider disabling if not needed)">>
              ELSE <<>>)
          \o (IF "link" \in DOMAIN headers /\ Contains("wp-json", headers["link"])
              THEN <<"WordPress REST API endpoint exposed (consider restricting access if not needed)">>
              ELSE <<>>)
          \o (IF anyNamesAdminAjax
              THEN <<"WordPress admin-ajax.php endpoint exposed (consider rate limiting)">>
              ELSE <<>>)
          \o (IF matching # <<>>
              THEN <<"WordPress version " \o version_of(matching[1], body)
                        \o " exposed in HTML">>
              ELSE <<>>)

(***************************************************************************)
(* api/utils/ssl.py                                                        *)
(*                                                                         *)
(* The TLS endpoint is the environment.  A probe p says how the endpoint   *)
(* behaves during one ssl_scan: p.fail_at names the call that raises       *)
(* ("none" when every call returns) and p.cause is the text of that        *)
(* exception; the other fields are what the calls that do return give.     *)
(***************************************************************************)

\* the calls of ssl_scan that can raise into its outer handler, in order
ProbeSteps == << "connect", "handshake", "certificate", "ciphers", "compression" >>

StepIndex(step) == CHOOSE i \in 1..Len(ProbeSteps) : ProbeSteps[i] = step

\* the probe got past `step`: it neither failed there nor before
Passed(p, step) ==
    p.fail_at = "none" \/ StepIndex(p.fail_at) > StepIndex(step)

weak_markers == << "rc4", "des", "3des", "md5" >>

\* the markers looked for in the name as it is, not in its lower-cased form
is_weak_cipher_cased(name) ==
    \E i \in 1..Len(weak_markers) : Contains(weak_markers[i], name)

\* any(w in c[0].lower() for w in ["rc4", "des", "3des", "md5"])
is_weak_cipher(name) ==
    \E i \in 1..Len(weak_markers) : Contains(weak_markers[i], Lower(name))

ssl_defaults ==
    [certificate         |-> <<>>,
     protocols           |-> <<>>,
     weak_ciphers        |-> <<>>,
     compression_enabled |-> FALSE,
     ocsp_stapling       |-> FALSE,
     preload_status      |-> "unknown"]

\* the certificate dict built from getpeercert(); expires_in_days is an int
\* or a str in the source and is kept as its decimal text here
certificate_of(cert) ==
    [notAfter        |-> cert.notAfter,
     expires_in_days |->
         IF cert.notAfter = "" THEN "unknown"
         ELSE IF cert.parses THEN ToString(cert.days)
         ELSE "error: time data does not match format",
     issuer          |-> cert.issuer]

protocols_of(version) ==
    [SSLv2 |-> FALSE, SSLv3 |-> FALSE, TLSv1_0 |-> FALSE, TLSv1_1 |-> FALSE,
     TLSv1_2 |-> Contains("TLSv1.2", version),
     TLSv1_3 |-> Contains("TLSv1.3", version)]

\* the except clause logging the failure without recording it
ssl_scan_unrecorded(p) ==
    LET r1 == IF Passed(p, "certificate")
              THEN [ssl_defaults EXCEPT !.certificate = certificate_of(p.cert),
                                        !.protocols = protocols_of(p.version)]
              ELSE ssl_defaults
        r2 == IF Passed(p, "ciphers") /\ p.cipher_list # <<>>
              THEN Put([r1 EXCEPT !.weak_ciphers =
                                     SelectSeq(p.cipher_list, is_weak_cipher)],
                       "supported_ciphers", p.cipher_list)
              ELSE r1
        r3 == IF Passed(p, "compression")
              THEN [r2 EXCEPT !.compression_enabled = (p.compression # "")]
              ELSE r2
    IN  IF p.fail_at = "none" /\ ~p.ocsp_raises
        THEN [r3 EXCEPT !.ocsp_stapling = p.ocsp]
        ELSE r3

ssl_scan(p) ==
    LET r0 == ssl_defaults
        r1 == IF Passed(p, "certificate")
              THEN [r0 EXCEPT !.certificate = certificate_of(p.cert),
                              !.protocols = protocols_of(p.version)]
              ELSE r0
        \* shared_ciphers() returns None or a list; `if cipher_list:`
        r2 == IF Passed(p, "ciphers") /\ p.cipher_list # <<>>
              THEN Put([r1 EXCEPT !.weak_ciphers =
                                     SelectSeq(p.cipher_list, is_weak_cipher)],
                       "supported_ciphers", p.cipher_list)
              ELSE r1
        \* bool(ssock.compression()): None or the name of the method
        r3 == IF Passed(p, "compression")
              THEN [r2 EXCEPT !.compression_enabled = (p.compression # "")]
              ELSE r2
        \* the second getpeercert() is in a try of its own: `except: pass`
        r4 == IF p.fail_at = "none" /\ ~p.ocsp_raises
              THEN [r3 EXCEPT !.ocsp_stapling = p.ocsp]
              ELSE r3
    IN  IF p.fail_at = "none" THEN r4 ELSE Put(r4, "error", p.cause)

(***************************************************************************)
(* api/utils/dns.py                                                        *)
(*                                                                         *)
(* The resolver is the environment.  A probe d says whether the resolver   *)
(* can be reached at all and which records the domain has: a query raises  *)
(* when the resolver is out of reach (a timeout) and when the record is    *)
(* not there (NoAnswer, NXDOMAIN).                                         *)
(***************************************************************************)

common_dkim_selectors == << "google", "selector1", "selector2", "dkim" >>

\* each resolve() sits in a try of its own whose handler swallows the
\* exception, so none reaches the outer handler that would set "error"
dns_scan(d) ==
    LET \* the loop over the selectors stops at the first that resolves
        anyResolves ==
            \E i \in 1..Len(common_dkim_selectors) :
                d.reachable /\ common_dkim_selectors[i] \in d.dkim
        \* the loop over the TXT answers stops at the first SPF record
        anySpf == \E i \in 1..Len(d.txt) : Contains("v=spf1", d.txt[i])
    IN  [dnssec     |-> d.reachable /\ d.dnskey,
         dmarc      |-> d.reachable /\ d.dmarc,
         dkim       |-> anyResolves,
         spf        |-> d.reachable /\ anySpf,
         mx_records |-> IF d.reachable THEN d.mx ELSE <<>>]

(***************************************************************************)
(* api/utils/gemini.py                                                     *)
(*                                                                         *)
(* model is the module-level gemini_model (FALSE when the client failed    *)
(* to initialise), g is what generate_content does in this call.           *)
(***************************************************************************)

\* a failed call answered with an empty narrative
generate_gemini_analysis_blank(model, g, results) ==
    IF ~model \/ g.raises THEN "" ELSE g.text

generate_gemini_analysis(model, g, results) ==
    IF ~model THEN "Gemini analysis unavailable"
    ELSE IF g.raises THEN "Gemini analysis failed: " \o g.text
    ELSE g.text

(***************************************************************************)
(* api/utils/analysis.py                                                   *)
(***************************************************************************)

\* the truth value of ssl_analysis.get("weak_ciphers")
has_weak_ciphers(ssl_analysis) == Get(ssl_analysis, "weak_ciphers", <<>>) # <<>>

\* the truth value of ssl_analysis.get("compression_enabled")
has_compression(ssl_analysis) == Get(ssl_analysis, "compression_enabled", FALSE)

\* a floor that mirrors what falls below it
Max2_mirrored(a, b) == IF a >= b THEN a ELSE b + (b - a)

\* a floor that is not applied
Max2_unfloored(a, b) == a

\* max(a, b)
Max2(a, b) == IF a >= b THEN a ELSE b

\* the CSP and HSTS issue penalties deducted from the headers category too
calculate_security_score_headers_tracked(header_analysis, ssl_analysis) ==
    LET s0 == 100
        b0 == [headers |-> 40, ssl |-> 30, cookies |-> 15, cors |-> 10,
               wordpress |-> 5]
        missing_penalty == Len(header_analysis["missing_essential"]) * 3
        s1 == s0 - missing_penalty
        b1 == [b0 EXCEPT !.headers = @ - missing_penalty]
        deprecated_penalty == Len(header_analysis["deprecated"]) * 2
        s2 == s1 - deprecated_penalty
        b2 == [b1 EXCEPT !.headers = @ - deprecated_penalty]
        s3 == s2 - Len(header_analysis["csp_issues"]) * 2
                 - Len(header_analysis["cookie_issues"]) * 2
                 - Len(header_analysis["cors_issues"]) * 2
                 - Len(header_analysis["hsts_issues"]) * 2
        b3 == [b2 EXCEPT !.headers = @ - Len(header_analysis["csp_issues"]) * 2
                                       - Len(header_analysis["hsts_issues"]) * 2]
        ssl_penalty == Len(ssl_analysis["weak_ciphers"]) * 3
        s4 == IF has_weak_ciphers(ssl_analysis) THEN s3 - ssl_penalty ELSE s3
        b4 == IF has_weak_ciphers(ssl_analysis)
              THEN [b3 EXCEPT !.ssl = @ - ssl_penalty] ELSE b3
        s5 == IF has_compression(ssl_analysis) THEN s4 - 10 ELSE s4
        b5 == IF has_compression(ssl_analysis)
              THEN [b4 EXCEPT !.ssl = @ - 10] ELSE b4
        wp_penalty == Len(header_analysis["wordpress_issues"]) * 2
        s6 == IF "wordpress_issues" \in DOMAIN header_analysis
              THEN s5 - wp_penalty ELSE s5
        b6 == IF "wordpress_issues" \in DOMAIN header_analysis
              THEN [b5 EXCEPT !.wordpress = @ - wp_penalty] ELSE b5
    IN  << Max2(s6, 0), [k \in DOMAIN b6 |-> Max2(b6[k], 0)] >>

\* the cookie and CORS issue penalties deducted from their categories too
calculate_security_score_cookies_tracked(header_analysis, ssl_analysis) ==
    LET s0 == 100
        b0 == [headers |-> 40, ssl |-> 30, cookies |-> 15, cors |-> 10,
               wordpress |-> 5]
        missing_penalty == Len(header_analysis["missing_essential"]) * 3
        s1 == s0 - missing_penalty
        b1 == [b0 EXCEPT !.headers = @ - missing_penalty]
        deprecated_penalty == Len(header_analysis["deprecated"]) * 2
        s2 == s1 - deprecated_penalty
        b2 == [b1 EXCEPT !.headers = @ - deprecated_penalty]
        s3 == s2 - Len(header_analysis["csp_issues"]) * 2
                 - Len(header_analysis["cookie_issues"]) * 2
                 - Len(header_analysis["cors_issues"]) * 2
                 - Len(header_analysis["hsts_issues"]) * 2
        b3 == [b2 EXCEPT !.cookies = @ - Len(header_analysis["cookie_issues"]) * 2,
                            !.cors = @ - Len(header_analysis["cors_issues"]) * 2]
        ssl_penalty == Len(ssl_analysis["weak_ciphers"]) * 3
        s4 == IF has_weak_ciphers(ssl_analysis) THEN s3 - ssl_penalty ELSE s3
        b4 == IF has_weak_ciphers(ssl_analysis)
              THEN [b3 EXCEPT !.ssl = @ - ssl_penalty] ELSE b3
        s5 == IF has_compression(ssl_analysis) THEN s4 - 10 ELSE s4
        b5 == IF has_compression(ssl_analysis)
              THEN [b4 EXCEPT !.ssl = @ - 10] ELSE b4
        wp_penalty == Len(header_analysis["wordpress_issues"]) * 2
        s6 == IF "wordpress_issues" \in DOMAIN header_analysis
              THEN s5 - wp_penalty ELSE s5
        b6 == IF "wordpress_issues" \in DOMAIN header_analysis
              THEN [b5 EXCEPT !.wordpress = @ - wp_penalty] ELSE b5
    IN  << Max2(s6, 0), [k \in DOMAIN b6 |-> Max2(b6[k], 0)] >>

\* the score taken as the sum of the floored breakdown categories
calculate_security_score_summed(header_analysis, ssl_analysis) ==
    LET floor(n) == IF n < 0 THEN 0 ELSE n
        headers == floor(40 - Len(header_analysis["missing_essential"]) * 3
                            - Len(header_analysis["deprecated"]) * 2)
        ssl == floor(30 - Len(Get(ssl_analysis, "weak_ciphers", <<>>)) * 3
                        - (IF Get(ssl_analysis, "compression_enabled", FALSE)
                           THEN 10 ELSE 0))
        wordpress == floor(5 - Len(Get(header_analysis, "wordpress_issues", <<>>)) * 2)
    IN  << headers + ssl + 15 + 10 + wordpress,
           [headers |-> headers, ssl |-> ssl, cookies |-> 15, cors |-> 10,
            wordpress |-> wordpress] >>

\* the statements of the function in their order: s<n> and b<n> are score
\* and breakdown after the n-th block of deductions
calculate_security_score(header_analysis, ssl_analysis) ==
    LET s0 == 100
        b0 == [headers |-> 40, ssl |-> 30, cookies |-> 15, cors |-> 10,
               wordpress |-> 5]
        missing_penalty == Len(header_analysis["missing_essential"]) * 3
        s1 == s0 - missing_penalty
        b1 == [b0 EXCEPT !.headers = @ - missing_penalty]
        deprecated_penalty == Len(header_analysis["deprecated"]) * 2
        s2 == s1 - deprecated_penalty
        b2 == [b1 EXCEPT !.headers = @ - deprecated_penalty]
        s3 == s2 - Len(header_analysis["csp_issues"]) * 2
                 - Len(header_analysis["cookie_issues"]) * 2
                 - Len(header_analysis["cors_issues"]) * 2
                 - Len(header_analysis["hsts_issues"]) * 2
        ssl_penalty == Len(ssl_analysis["weak_ciphers"]) * 3
        s4 == IF has_weak_ciphers(ssl_analysis) THEN s3 - ssl_penalty ELSE s3
        b4 == IF has_weak_ciphers(ssl_analysis)
              THEN [b2 EXCEPT !.ssl = @ - ssl_penalty] ELSE b2
        s5 == IF has_compression(ssl_analysis) THEN s4 - 10 ELSE s4
        b5 == IF has_compression(ssl_analysis)
              THEN [b4 EXCEPT !.ssl = @ - 10] ELSE b4
        wp_penalty == Len(header_analysis["wordpress_issues"]) * 2
        s6 == IF "wordpress_issues" \in DOMAIN header_analysis
              THEN s5 - wp_penalty ELSE s5
        b6 == IF "wordpress_issues" \in DOMAIN header_analysis
              THEN [b5 EXCEPT !.wordpress = @ - wp_penalty] ELSE b5
    IN  << Max2(s6, 0), [k \in DOMAIN b6 |-> Max2(b6[k], 0)] >>

\* the two thresholds counted into the lower tier
risk_level_of_open(security_score) ==
    IF security_score <= 40 THEN "High"
    ELSE IF security_score <= 70 THEN "Medium"
    ELSE "Low"

risk_level_of(security_score) ==
    IF security_score < 40 THEN "High"
    ELSE IF security_score < 70 THEN "Medium"
    ELSE "Low"

\* the TLS remarks emitted ahead of the header remarks
generate_recommendations_tls_first(header_analysis, ssl_analysis) ==
    (IF has_weak_ciphers(ssl_analysis)
     THEN <<"Disable weak cipher suites: "
               \o Join(", ", ssl_analysis["weak_ciphers"])>>
     ELSE <<>>)
          \o (IF has_compression(ssl_analysis)
              THEN <<"Disable TLS compression (CRIME vulnerability risk)">>
              ELSE <<>>)
          \o (IF "error" \in DOMAIN ssl_analysis
              THEN <<"Fix SSL error: " \o ssl_analysis["error"]>>
              ELSE <<>>)
          \o Prefixed("Add missing security header: ", header_analysis["missing_essential"])
          \o Prefixed("Remove deprecated header: ", header_analysis["deprecated"])
          \o Prefixed("CSP issue: ", header_analysis["csp_issues"])
          \o Prefixed("Cookie security issue: ", header_analysis["cookie_issues"])
          \o Prefixed("CORS issue: ", header_analysis["cors_issues"])
          \o Prefixed("HSTS issue: ", header_analysis["hsts_issues"])
          \o (IF "wordpress_issues" \in DOMAIN header_analysis
              THEN Prefixed("WordPress issue: ", header_analysis["wordpress_issues"])
              ELSE <<>>)

\* recommendations that leave the weak suites out when the probe failed
generate_recommendations_trusting(header_analysis, ssl_analysis) ==
    Prefixed("Add missing security header: ", header_analysis["missing_essential"])
          \o Prefixed("Remove deprecated header: ", header_analysis["deprecated"])
          \o Prefixed("CSP issue: ", header_analysis["csp_issues"])
          \o Prefixed("Cookie security issue: ", header_analysis["cookie_issues"])
          \o Prefixed("CORS issue: ", header_analysis["cors_issues"])
          \o Prefixed("HSTS issue: ", header_analysis["hsts_issues"])
          \o (IF "wordpress_issues" \in DOMAIN header_analysis
              THEN Prefixed("WordPress issue: ", header_analysis["wordpress_issues"])
              ELSE <<>>)
          \o (IF has_weak_ciphers(ssl_analysis) /\ "error" \notin DOMAIN ssl_analysis
              THEN <<"Disable weak cipher suites: "
                        \o Join(", ", ssl_analysis["weak_ciphers"])>>
              ELSE <<>>)
          \o (IF has_compression(ssl_analysis)
              THEN <<"Disable TLS compression (CRIME vulnerability risk)">>
              ELSE <<>>)
          \o (IF "error" \in DOMAIN ssl_analysis
              THEN <<"Fix SSL error: " \o ssl_analysis["error"]>>
              ELSE <<>>)

generate_recommendations(header_analysis, ssl_analysis) ==
    Prefixed("Add missing security header: ", header_analysis["missing_essential"])
          \o Prefixed("Remove deprecated header: ", header_analysis["deprecated"])
          \o Prefixed("CSP issue: ", header_analysis["csp_issues"])
          \o Prefixed("Cookie security issue: ", header_analysis["cookie_issues"])
          \o Prefixed("CORS issue: ", header_analysis["cors_issues"])
          \o Prefixed("HSTS issue: ", header_analysis["hsts_issues"])
          \o (IF "wordpress_issues" \in DOMAIN header_analysis
              THEN Prefixed("WordPress issue: ", header_analysis["wordpress_issues"])
              ELSE <<>>)
          \o (IF has_weak_ciphers(ssl_analysis)
              THEN <<"Disable weak cipher suites: "
                        \o Join(", ", ssl_analysis["weak_ciphers"])>>
              ELSE <<>>)
          \o (IF has_compression(ssl_analysis)
              THEN <<"Disable TLS compression (CRIME vulnerability risk)">>
              ELSE <<>>)
          \o (IF "error" \in DOMAIN ssl_analysis
              THEN <<"Fix SSL error: " \o ssl_analysis["error"]>>
              ELSE <<>>)

checked_headers ==
    << "content-security-policy", "x-content-type-options", "x-frame-options",
       "strict-transport-security" >>

\* the two TLS checks left out when the probe reported an error
categorize_checks_skipping(header_analysis, ssl_analysis) ==
    LET missing(h) ==
            \E i \in 1..Len(header_analysis["missing_essential"]) :
                header_analysis["missing_essential"][i] = h
        there(h) == ~missing(h)
        probed == "error" \notin DOMAIN ssl_analysis
        passed ==
            Prefixed("Header present: ", SelectSeq(checked_headers, there))
              \o (IF probed /\ ~has_weak_ciphers(ssl_analysis)
                  THEN <<"No weak cipher suites">> ELSE <<>>)
              \o (IF probed /\ ~has_compression(ssl_analysis)
                  THEN <<"TLS compression disabled">> ELSE <<>>)
        failed ==
            Prefixed("Header missing: ", SelectSeq(checked_headers, missing))
              \o (IF probed /\ has_weak_ciphers(ssl_analysis)
                  THEN <<"Weak ciphers found: "
                            \o Join(", ", ssl_analysis["weak_ciphers"])>>
                  ELSE <<>>)
              \o (IF probed /\ has_compression(ssl_analysis)
                  THEN <<"TLS compression enabled (CRIME vulnerability risk)">>
                  ELSE <<>>)
    IN  << passed, failed >>

categorize_checks(header_analysis, ssl_analysis) ==
    LET missing(h) ==
            \E i \in 1..Len(header_analysis["missing_essential"]) :
                header_analysis["missing_essential"][i] = h
        there(h) == ~missing(h)
        passed ==
            Prefixed("Header present: ", SelectSeq(checked_headers, there))
              \o (IF ~has_weak_ciphers(ssl_analysis)
                  THEN <<"No weak cipher suites">> ELSE <<>>)
              \o (IF ~has_compression(ssl_analysis)
                  THEN <<"TLS compression disabled">> ELSE <<>>)
        failed ==
            Prefixed("Header missing: ", SelectSeq(checked_headers, missing))
              \o (IF has_weak_ciphers(ssl_analysis)
                  THEN <<"Weak ciphers found: "
                            \o Join(", ", ssl_analysis["weak_ciphers"])>>
                  ELSE <<>>)
              \o (IF has_compression(ssl_analysis)
                  THEN <<"TLS compression enabled (CRIME vulnerability risk)">>
                  ELSE <<>>)
    IN  << passed, failed >>

(***************************************************************************)
(* The environment of a scan: the requests that arrive and what the target *)
(* site, its TLS endpoint, the resolver and the narrative service answer.  *)
(***************************************************************************)

MaxHeaders == 1
MaxCiphers == 7

URLs == {"https://example.com"}

\* the header names the target may send, each with the values it may carry
HeaderValues ==
    [h \in {"content-security-policy", "strict-transport-security",
            "x-frame-options", "server", "x-powered-by", "set-cookie",
            "access-control-allow-origin", "link", "x-pingback"} |->
        CASE h = "content-security-policy" ->
                {"default-src 'self'", "script-src * 'unsafe-inline'"}
          [] h = "strict-transport-security" ->
                {"max-age=100", "max-age=31536000; includeSubDomains"}
          [] h = "x-frame-options" -> {"DENY"}
          [] h = "server" -> {"nginx"}
          [] h = "x-powered-by" -> {"PHP/8.1", "WordPress"}
          [] h = "set-cookie" ->
                {"session=abc; Path=/", "sid=1; Secure; HttpOnly; SameSite=Lax"}
          [] h = "access-control-allow-origin" -> {"*"}
          [] h = "link" -> {"</wp-json/>; rel=api"}
          [] h = "x-pingback" -> {"/xmlrpc.php"}]

\* a response's headers: at most MaxHeaders of them, names lower-cased by
\* fetch_headers_and_content
HeaderSets ==
    UNION {{headers \in [names -> UNION {HeaderValues[h] : h \in names}] :
               \A h \in names : headers[h] \in HeaderValues[h]} :
              names \in {n \in SUBSET DOMAIN HeaderValues : Cardinality(n) <= MaxHeaders}}

Bodies == {"<html></html>", "<p>WordPress 6.4.2 /wp-content/a.css</p>"}

\* str(e) of the httpx exception; ConnectError, ReadTimeout and
\* HTTPStatusError are httpx.HTTPError, InvalidURL is not
FetchFailures ==
    {[exception |-> "ConnectError", http_error |-> TRUE,
      text |-> "All connection attempts failed"],
     [exception |-> "ReadTimeout", http_error |-> TRUE, text |-> "timed out"],
     [exception |-> "HTTPStatusError", http_error |-> TRUE,
      text |-> "Server error '500 Internal Server Error'"],
     [exception |-> "InvalidURL", http_error |-> FALSE,
      text |-> "Invalid port"]}

\* what the two ends share, server preference first
CipherSuites ==
    << "TLS_AES_256_GCM_SHA384", "ECDHE-RSA-DES-CBC3-SHA", "RC4-MD5",
       "DES-CBC3-SHA", "RC4-SHA", "EDH-RSA-DES-CBC-SHA", "NULL-MD5",
       "ECDHE-RSA-RC4-SHA", "EXP-DES-CBC-SHA", "IDEA-CBC-MD5",
       "ECDHE-RSA-AES128-GCM-SHA256", "TLS_RSA_WITH_3DES_EDE_CBC_SHA" >>

CipherLists ==
    {SubSeq(CipherSuites, 1, n) : n \in 0..(IF MaxCiphers < Len(CipherSuites)
                                             THEN MaxCiphers ELSE Len(CipherSuites))}

GoodCert ==
    [notAfter |-> "Jan  1 00:00:00 2030 GMT", parses |-> TRUE, days |-> 90,
     issuer |-> "R3"]

StepCause ==
    [step \in {"connect", "handshake", "certificate", "ciphers", "compression"} |->
        CASE step = "connect" -> "[Errno 111] Connection refused"
          [] step = "handshake" -> "certificate verify failed"
          [] step = "certificate" -> "dictionary update sequence element"
          [] step = "ciphers" -> "Underlying socket connection gone"
          [] step = "compression" -> "Underlying socket connection gone"]

\* the fields a probe does not get to read are at a fixed value
TLSProbes ==
    {p \in [fail_at : {"none", "connect", "handshake", "certificate", "ciphers",
                       "compression"},
            cause : {StepCause[s] : s \in DOMAIN StepCause} \cup {""},
            cert : {GoodCert}, version : {"TLSv1.3"},
            cipher_list : CipherLists, compression : {"", "zlib"},
            ocsp_raises : BOOLEAN, ocsp : {FALSE}] :
        /\ p.cause = (IF p.fail_at = "none" THEN "" ELSE StepCause[p.fail_at])
        /\ ~Passed(p, "ciphers") => p.cipher_list = <<>>
        /\ ~Passed(p, "compression") => p.compression = ""
        /\ p.fail_at # "none" => ~p.ocsp_raises}

\* the resolver is out of reach (every query raises a timeout), or it
\* answers: then a query for a record that is not there raises NoAnswer or
\* NXDOMAIN and a query for one that is there returns it
DNSProbes ==
    {[reachable |-> FALSE, dnskey |-> FALSE, dmarc |-> FALSE, dkim |-> {},
      txt |-> <<>>, mx |-> <<>>],
     [reachable |-> TRUE, dnskey |-> FALSE, dmarc |-> FALSE, dkim |-> {},
      txt |-> <<>>, mx |-> <<>>],
     [reachable |-> TRUE, dnskey |-> TRUE, dmarc |-> TRUE, dkim |-> {"selector1"},
      txt |-> <<"google-site-verification=x", "v=spf1 -all">>,
      mx |-> <<"mx1.example.com.", "mx2.example.com.">>]}

NoProbe == [used |-> FALSE]

GeminiOutcomes ==
    {[raises |-> FALSE, text |-> "1. Executive Summary"],
     [raises |-> TRUE, text |-> "429 Resource has been exhausted"]}

\* datetime.now(timezone.utc).isoformat()
Timestamp == "2024-01-01T00:00:00+00:00"

(***************************************************************************)
(* analyze_website.  The coroutine suspends once, at the await of the      *)
(* fetch; ssl_scan and dns_scan are plain functions (iscoroutinefunction   *)
(* is false for both), so what follows the fetch runs to the return        *)
(* without yielding.                                                       *)
(***************************************************************************)

VARIABLES
    gemini_model,   \* gemini.py's module-level client: TRUE, or FALSE for None
    pc,             \* "idle", "fetching", "returned" or "raised"
    request,        \* the arguments of the call in progress
    fetch,          \* what the target site did: its response, or the failure
    tls,            \* what the TLS endpoint did during this scan
    dns,            \* what the resolver did during this scan
    gemini,         \* what generate_content did during this scan
    response_data,  \* the dict analyze_website returned
    error,          \* the exception that left analyze_website
    score_call,     \* the arguments of a call of calculate_security_score
    score_return,   \* what that call returned
    rule_call,      \* a rule evaluator under call, with its arguments
    rule_return,    \* what the calls of that evaluator returned, in order
    others,         \* the HeaderSets other scans had analysed in between
    scans,          \* the frames of the analyze_website coroutines in flight
    limiter         \* RateLimitMiddleware: the cache entry and the requests in it

scan_vars ==
    << gemini_model, pc, request, fetch, tls, dns, gemini, response_data, error >>
score_vars == << score_call, score_return >>
rule_vars == << rule_call, rule_return, others >>
frame_vars == << scans >>
limit_vars == << limiter >>
vars == << scan_vars, score_vars, rule_vars, frame_vars, limit_vars >>

NoRequest == [url |-> "", include_gemini_analysis |-> FALSE, deep_scan |-> FALSE]
NoError == [kind |-> "", message |-> ""]

\* analysis.py lines 18 and 35-37: the header analysis, with the WordPress
\* issues folded in when the site is detected as WordPress
analyze_site(headers, body) ==
    IF check_wordpress(headers, body)
    THEN Put(analyze_headers(headers), "wordpress_issues",
             analyze_wordpress_headers(headers, body))
    ELSE analyze_headers(headers)

\* a scan that hands back what it has gathered when the TLS probe fails
analyze_response_partial(req, headers, body, p, d, g, model) ==
    LET header_analysis == analyze_site(headers, body)
        ssl_analysis == ssl_scan(p)
        dns_analysis == IF req.deep_scan THEN dns_scan(d) ELSE <<>>
        scored == calculate_security_score(header_analysis, ssl_analysis)
        checks == categorize_checks(header_analysis, ssl_analysis)
    IN  IF "error" \in DOMAIN ssl_analysis
        THEN [url         |-> req.url,
              status_code |-> 200,
              headers     |-> headers,
              analysis    |-> header_analysis,
              ssl         |-> ssl_analysis]
        ELSE [url             |-> req.url,
              status_code     |-> 200,
              security_score  |-> scored[1],
              score_breakdown |-> scored[2],
              headers         |-> headers,
              analysis        |-> header_analysis,
              ssl             |-> ssl_analysis,
              dns             |-> dns_analysis,
              recommendations |-> generate_recommendations(header_analysis, ssl_analysis),
              passed_checks   |-> checks[1],
              failed_checks   |-> checks[2],
              risk_level      |-> risk_level_of(scored[1]),
              timestamp       |-> Timestamp]

\* analysis.py lines 18-66: from the fetched response to the returned dict
analyze_response(req, headers, body, p, d, g, model) ==
    LET header_analysis == analyze_site(headers, body)
        ssl_analysis == ssl_scan(p)
        dns_analysis == IF req.deep_scan THEN dns_scan(d) ELSE <<>>
        scored == calculate_security_score(header_analysis, ssl_analysis)
        checks == categorize_checks(header_analysis, ssl_analysis)
        data ==
            [url             |-> req.url,
             status_code     |-> 200,
             security_score  |-> scored[1],
             score_breakdown |-> scored[2],
             headers         |-> headers,
             analysis        |-> header_analysis,
             ssl             |-> ssl_analysis,
             dns             |-> dns_analysis,
             recommendations |-> generate_recommendations(header_analysis, ssl_analysis),
             passed_checks   |-> checks[1],
             failed_checks   |-> checks[2],
             risk_level      |-> risk_level_of(scored[1]),
             timestamp       |-> Timestamp]
    IN  IF req.include_gemini_analysis
        THEN Put(data, "gemini_analysis", generate_gemini_analysis(model, g, data))
        ELSE data

\* fetch_headers_and_content's except clause: an httpx.HTTPError becomes a
\* RequestFailedError, any other exception passes through
fetch_error(failure) ==
    IF failure.http_error
    THEN [kind |-> "RequestFailedError",
          message |-> "Request to target website failed: " \o failure.text]
    ELSE [kind |-> failure.exception, message |-> failure.text]

\* an except clause that re-raises what it caught
analysis_error_reraised(e) == e

\* analyze_website's except clause
analysis_error(e) ==
    [kind |-> "AnalysisError", message |-> "Analysis failed: " \o e.message]

NoCall == [header_analysis |-> <<>>, ssl_analysis |-> <<>>]
NoRule == [fn |-> ""]

\* no evaluator under call on its own, no second coroutine in flight
RulesIdle == rule_call = NoRule /\ rule_return = <<>> /\ others = <<>>
FramesIdle == scans = <<>>
LimiterIdle == limiter = <<>>

ScanIdle ==
    /\ pc = "idle"
    /\ request = NoRequest
    /\ fetch = NoProbe
    /\ tls = NoProbe
    /\ dns = NoProbe
    /\ gemini = NoProbe
    /\ response_data = <<>>
    /\ error = NoError

Init ==
    /\ gemini_model \in BOOLEAN
    /\ ScanIdle
    /\ score_call = NoCall
    /\ score_return = <<>>
    /\ RulesIdle
    /\ FramesIdle
    /\ LimiterIdle

\* the view calls analyze_website, which awaits the fetch
Call ==
    /\ pc = "idle"
    /\ \E url \in URLs, include_gemini_analysis \in BOOLEAN, deep_scan \in BOOLEAN :
          request' = [url |-> url,
                      include_gemini_analysis |-> include_gemini_analysis,
                      deep_scan |-> deep_scan]
    /\ pc' = "fetching"
    /\ UNCHANGED << gemini_model, fetch, tls, dns, gemini, response_data, error >>
    /\ UNCHANGED << score_vars, rule_vars, frame_vars, limit_vars >>

\* the fetch raises: the scan ends in analyze_website's except clause
FetchFails ==
    /\ pc = "fetching"
    /\ \E failure \in FetchFailures :
          /\ fetch' = failure
          /\ error' = analysis_error(fetch_error(failure))
    /\ pc' = "raised"
    /\ UNCHANGED << gemini_model, request, tls, dns, gemini, response_data >>
    /\ UNCHANGED << score_vars, rule_vars, frame_vars, limit_vars >>

\* the fetch returns: the rest of analyze_website runs to its return; the
\* DNS probe and the narrative call happen only when the scan gets to them
FetchReturns ==
    /\ pc = "fetching"
    /\ \E headers \in HeaderSets, body \in Bodies, p \in TLSProbes,
          d \in (IF request.deep_scan THEN DNSProbes ELSE {NoProbe}),
          g \in (IF request.include_gemini_analysis /\ gemini_model
                 THEN GeminiOutcomes ELSE {NoProbe}) :
            /\ fetch' = [headers |-> headers, body |-> body]
            /\ tls' = p
            /\ dns' = d
            /\ gemini' = g
            /\ response_data' =
                   analyze_response(request, headers, body, p, d, g, gemini_model)
    /\ pc' = "returned"
    /\ UNCHANGED << gemini_model, request, error >>
    /\ UNCHANGED << score_vars, rule_vars, frame_vars, limit_vars >>

\* the view takes the outcome; the next request may arrive
Finish ==
    /\ pc \in {"returned", "raised"}
    /\ pc' = "idle"
    /\ request' = NoRequest
    /\ fetch' = NoProbe
    /\ tls' = NoProbe
    /\ dns' = NoProbe
    /\ gemini' = NoProbe
    /\ response_data' = <<>>
    /\ error' = NoError
    /\ UNCHANGED gemini_model
    /\ UNCHANGED << score_vars, rule_vars, frame_vars, limit_vars >>

Next == Call \/ FetchFails \/ FetchReturns \/ Finish

Spec == Init /\ [][Next]_vars

(***************************************************************************)
(* calculate_security_score on its own: every HeaderAnalysis and           *)
(* TLSAnalysis within the bounds, not only those a scan produces.          *)
(***************************************************************************)

MaxIssues == 2
MaxWeak == 10

Issues(n) == [i \in 1..n |-> "issue"]

HeaderAnalyses ==
    LET always ==
            [missing_essential :
                 {SubSeq(essential_headers, 1, n) : n \in 0..Len(essential_headers)},
             deprecated :
                 {SubSeq(deprecated_headers, 1, n) : n \in 0..Len(deprecated_headers)},
             csp_issues : {Issues(n) : n \in 0..MaxIssues},
             cookie_issues : {Issues(n) : n \in 0..MaxIssues},
             cors_issues : {Issues(n) : n \in 0..MaxIssues},
             hsts_issues : {Issues(n) : n \in 0..MaxIssues}]
    IN  always \cup {Put(a, "wordpress_issues", Issues(n)) :
                        a \in always, n \in 0..MaxIssues}

TLSAnalyses ==
    [weak_ciphers : {[i \in 1..n |-> "RC4-MD5"] : n \in 0..MaxWeak},
     compression_enabled : BOOLEAN]

InitScore ==
    /\ gemini_model = FALSE
    /\ ScanIdle
    /\ score_call \in [header_analysis : HeaderAnalyses, ssl_analysis : TLSAnalyses]
    /\ score_return = <<>>
    /\ RulesIdle
    /\ FramesIdle
    /\ LimiterIdle

Score ==
    /\ score_return = <<>>
    /\ score_return' = calculate_security_score(score_call.header_analysis,
                                                score_call.ssl_analysis)
    /\ UNCHANGED score_call
    /\ UNCHANGED << scan_vars, rule_vars, frame_vars, limit_vars >>

NextScore == Score

SpecScore == InitScore /\ [][NextScore]_vars

(***************************************************************************)
(* Properties of calculate_security_score, under SpecScore.                *)
(***************************************************************************)

Returned == score_return # <<>>

StartingBudget ==
    [headers |-> 40, ssl |-> 30, cookies |-> 15, cors |-> 10, wordpress |-> 5]

\* C1: for every HeaderAnalysis and TLSAnalysis, calculate_security_score
\* returns a score in [0,100] and a breakdown whose every category is at
\* least 0 and at most its starting budget.
C1_ScoreAndBreakdownInRange ==
    Returned =>
        /\ score_return[1] \in 0..100
        /\ DOMAIN score_return[2] = DOMAIN StartingBudget
        /\ \A k \in DOMAIN StartingBudget :
              score_return[2][k] \in 0..StartingBudget[k]

\* C1: the penalties exceed 100, and those of headers and ssl their budgets
C1_Witness ==
    /\ Returned
    /\ Len(score_call.header_analysis["missing_essential"]) = 10
    /\ Len(score_call.header_analysis["deprecated"]) = 6
    /\ Len(score_call.header_analysis["csp_issues"]) >= 2
    /\ Len(score_call.header_analysis["cookie_issues"]) >= 2
    /\ Len(score_call.header_analysis["cors_issues"]) >= 2
    /\ Len(score_call.header_analysis["hsts_issues"]) >= 2
    /\ "wordpress_issues" \in DOMAIN score_call.header_analysis
    /\ Len(score_call.header_analysis["wordpress_issues"]) >= 2
    /\ Len(score_call.ssl_analysis["weak_ciphers"]) >= 10
    /\ score_call.ssl_analysis["compression_enabled"]
    /\ score_return[1] = 0
    /\ score_return[2]["headers"] = 0
    /\ score_return[2]["ssl"] = 0

\* the penalties of a call, counted from its arguments
PenaltiesOf(call) ==
    3 * Len(call.header_analysis["missing_essential"])
      + 2 * Len(call.header_analysis["deprecated"])
      + 2 * (Len(call.header_analysis["csp_issues"])
               + Len(call.header_analysis["cookie_issues"])
               + Len(call.header_analysis["cors_issues"])
               + Len(call.header_analysis["hsts_issues"]))
      + 3 * Len(call.ssl_analysis["weak_ciphers"])
      + (IF call.ssl_analysis["compression_enabled"] THEN 10 ELSE 0)
      + 2 * (IF "wordpress_issues" \in DOMAIN call.header_analysis
             THEN Len(call.header_analysis["wordpress_issues"]) ELSE 0)

\* C4: the score is max(0, 100 - 3*|missing_essential| - 2*|deprecated|
\* - 2*(|csp|+|cookie|+|cors|+|hsts| issues) - 3*|weak_ciphers|
\* - (10 if compression) - 2*|cms_issues|), computed from the penalties and
\* not as the sum of the breakdown categories.
C4_ScoreIsHundredMinusPenalties ==
    Returned =>
        score_return[1] = (IF PenaltiesOf(score_call) >= 100 THEN 0
                           ELSE 100 - PenaltiesOf(score_call))

\* C4: a call whose score is not the sum of its breakdown categories
C4_Witness ==
    /\ Returned
    /\ score_return[1] > 0
    /\ score_return[1] # score_return[2]["headers"] + score_return[2]["ssl"]
                           + score_return[2]["cookies"] + score_return[2]["cors"]
                           + score_return[2]["wordpress"]

\* a header analysis with its CSP, cookie, CORS and HSTS issues taken out
WithoutIssues(header_analysis) ==
    [header_analysis EXCEPT !["csp_issues"] = <<>>, !["cookie_issues"] = <<>>,
                            !["cors_issues"] = <<>>, !["hsts_issues"] = <<>>]

\* C21: the CSP, cookie, CORS and HSTS issue penalties are deducted from the
\* total only: for fixed missing_essential, deprecated, TLS and CMS inputs,
\* changing the number of csp/cookie/cors/hsts issues leaves every breakdown
\* category (in particular headers) unchanged.
C21_IssuePenaltiesUntracked ==
    Returned =>
        /\ score_return[2] =
               calculate_security_score(WithoutIssues(score_call.header_analysis),
                                        score_call.ssl_analysis)[2]
        /\ score_return[2]["headers"] =
               LET left == 40 - 3 * Len(score_call.header_analysis["missing_essential"])
                              - 2 * Len(score_call.header_analysis["deprecated"])
               IN  IF left < 0 THEN 0 ELSE left

\* C21: issues of the four kinds that lower the total and leave headers
C21_Witness ==
    /\ Returned
    /\ Len(score_call.header_analysis["csp_issues"]) = 2
    /\ Len(score_call.header_analysis["cookie_issues"]) = 1
    /\ Len(score_call.header_analysis["cors_issues"]) = 1
    /\ Len(score_call.header_analysis["hsts_issues"]) = 2
    /\ Len(score_call.header_analysis["missing_essential"]) = 2
    /\ score_call.header_analysis["deprecated"] = <<>>
    /\ score_return[2]["headers"] = 34
    /\ score_return[1] <
           calculate_security_score(WithoutIssues(score_call.header_analysis),
                                    score_call.ssl_analysis)[1]

\* C27: in every score breakdown returned by calculate_security_score the
\* cookies category equals 15 and the cors category equals 10, whatever
\* cookie and CORS issues were found; only headers, ssl and wordpress ever
\* drop below their starting budget.
C27_CookiesAndCorsStayFull ==
    Returned =>
        /\ score_return[2]["cookies"] = 15
        /\ score_return[2]["cors"] = 10
        /\ {k \in DOMAIN score_return[2] : score_return[2][k] < StartingBudget[k]}
               \subseteq {"headers", "ssl", "wordpress"}

\* C27: a call with cookie and CORS issues in which the other three
\* categories are below their budgets
C27_Witness ==
    /\ Returned
    /\ Len(score_call.header_analysis["cookie_issues"]) = 2
    /\ Len(score_call.header_analysis["cors_issues"]) = 2
    /\ score_return[2]["cookies"] = 15
    /\ score_return[2]["cors"] = 10
    /\ score_return[2]["headers"] < 40
    /\ score_return[2]["ssl"] < 30
    /\ score_return[2]["wordpress"] < 5

\* the calls that have one finding more than `call` and are otherwise equal
OneMoreFinding(call) ==
    {[call EXCEPT !.header_analysis[k] = Append(@, "one more")] :
        k \in {"missing_essential", "deprecated", "csp_issues", "cookie_issues",
               "cors_issues", "hsts_issues"}}
      \cup {[call EXCEPT !.header_analysis =
                Put(@, "wordpress_issues",
                    Append(Get(@, "wordpress_issues", <<>>), "one more"))]}
      \cup {[call EXCEPT !.ssl_analysis["weak_ciphers"] = Append(@, "RC4-SHA")]}
      \cup {[call EXCEPT !.ssl_analysis["compression_enabled"] = TRUE]}

\* C29: scoring is monotone in the findings: adding one more finding of any
\* kind to otherwise equal inputs never increases the score and never
\* increases any breakdown category.
C29_ScoreMonotone ==
    Returned =>
        \A more \in OneMoreFinding(score_call) :
            LET with_more == calculate_security_score(more.header_analysis,
                                                      more.ssl_analysis)
            IN  /\ with_more[1] <= score_return[1]
                /\ \A k \in DOMAIN score_return[2] :
                      with_more[2][k] <= score_return[2][k]

\* C29: a call at the floor of the score and of the headers category, to
\* which a finding can still be added
C29_Witness ==
    /\ Returned
    /\ score_return[1] = 0
    /\ score_return[2]["headers"] = 0
    /\ score_return[2]["ssl"] = 0
    /\ score_return[2]["wordpress"] > 0
    /\ PenaltiesOf(score_call) >= 100
    /\ \E more \in OneMoreFinding(score_call) : more # score_call

(***************************************************************************)
(* Properties of analyze_website, under Spec.                              *)
(***************************************************************************)

FetchSucceeded == "headers" \in DOMAIN fetch
FetchFailed == "exception" \in DOMAIN fetch
TLSProbeFailed == "fail_at" \in DOMAIN tls /\ tls.fail_at # "none"
DNSLookupFailed == "reachable" \in DOMAIN dns /\ ~dns.reachable
NarrativeFailed == "raises" \in DOMAIN gemini /\ gemini.raises

\* C2: in every returned result risk_level is High exactly when
\* security_score < 40, Medium exactly when 40 <= security_score < 70 and
\* Low exactly when security_score >= 70.
C2_RiskLevelThresholds ==
    pc = "returned" =>
        LET score == response_data["security_score"]
            risk == response_data["risk_level"]
        IN  /\ risk = "High" <=> score < 40
            /\ risk = "Medium" <=> (40 <= score /\ score < 70)
            /\ risk = "Low" <=> score >= 70

\* C2: a scan that scores exactly 40
C2_Witness ==
    /\ pc = "returned"
    /\ response_data["security_score"] = 40
    /\ response_data["risk_level"] = "Medium"

\* C3: when the mandatory fetch fails with a connection error, a timeout or
\* a non-2xx status, the error that reaches the caller of analyze_website is
\* a RequestFailedError carrying the cause text.
C3_FetchFailureLeavesAsRequestFailed ==
    (pc = "raised" /\ FetchFailed /\ fetch.http_error) =>
        /\ error.kind = "RequestFailedError"
        /\ Contains(fetch.text, error.message)

\* C5: whenever the fetch succeeds and the TLS probe fails, analyze_website
\* still returns a result, and the result's ssl object has a non-empty
\* error string.
C5_TLSFailureDegrades ==
    (FetchSucceeded /\ TLSProbeFailed) =>
        /\ pc = "returned"
        /\ "error" \in DOMAIN response_data["ssl"]
        /\ response_data["ssl"]["error"] # ""

\* C5: a scan whose TLS handshake failed
C5_Witness ==
    /\ pc = "returned"
    /\ TLSProbeFailed
    /\ tls.fail_at = "handshake"
    /\ response_data["ssl"]["error"] = "certificate verify failed"

\* C6: whenever the result of ssl_scan carries an error string, weak_ciphers
\* is empty, compression_enabled is false, and certificate and protocols are
\* empty, whatever the step at which the probe failed.
C6_ErrorLeavesDefaults ==
    (pc = "returned" /\ "error" \in DOMAIN response_data["ssl"]) =>
        /\ response_data["ssl"]["weak_ciphers"] = <<>>
        /\ ~response_data["ssl"]["compression_enabled"]
        /\ DOMAIN response_data["ssl"]["certificate"] = {}
        /\ DOMAIN response_data["ssl"]["protocols"] = {}

\* C7: for a scan whose TLS probe reported an error and whose deep_scan flag
\* is false, dns is empty, the ssl breakdown category is 30 and the score is
\* the one the header (and CMS) penalties alone give.
C7_FailedProbeCostsNothing ==
    (pc = "returned" /\ "error" \in DOMAIN response_data["ssl"]
                     /\ ~request.deep_scan) =>
        /\ DOMAIN response_data["dns"] = {}
        /\ response_data["score_breakdown"]["ssl"] = 30
        /\ response_data["security_score"] =
               calculate_security_score(response_data["analysis"], ssl_defaults)[1]

AllBut(d, k) == [x \in (DOMAIN d) \ {k} |-> d[x]]

\* C8: when include_gemini_analysis is true and the fetch succeeded,
\* analyze_website returns a result whose narrative is the generated text or
\* a placeholder that names the failure, and whose other fields are those
\* of the same scan with include_gemini_analysis false.
C8_NarrativeNeverFatal ==
    (FetchSucceeded /\ request.include_gemini_analysis) =>
        /\ pc = "returned"
        /\ "gemini_analysis" \in DOMAIN response_data
        /\ IF ~gemini_model
           THEN response_data["gemini_analysis"] = "Gemini analysis unavailable"
           ELSE IF gemini.raises
           THEN /\ Contains("failed", response_data["gemini_analysis"])
                /\ Contains(gemini.text, response_data["gemini_analysis"])
           ELSE response_data["gemini_analysis"] = gemini.text
        /\ AllBut(response_data, "gemini_analysis") =
               analyze_response([request EXCEPT !.include_gemini_analysis = FALSE],
                                fetch.headers, fetch.body, tls, dns, gemini,
                                gemini_model)

\* C8: a scan whose narrative call raised
C8_Witness ==
    /\ pc = "returned"
    /\ request.include_gemini_analysis
    /\ NarrativeFailed
    /\ response_data["gemini_analysis"] =
           "Gemini analysis failed: 429 Resource has been exhausted"

\* C9: when deep_scan is true and the DNS lookups fail, the scan is not
\* aborted and the result's dns object carries an error string that marks
\* the failure.
C9_DNSFailureMarked ==
    (FetchSucceeded /\ request.deep_scan /\ DNSLookupFailed) =>
        /\ pc = "returned"
        /\ "error" \in DOMAIN response_data["dns"]

\* C10: only RequestFailedError and AnalysisError ever leave
\* analyze_website; TLS, DNS and narrative failures never surface as errors
\* but are absorbed into the returned result.
C10_OnlyFatalKindsLeave ==
    /\ pc = "raised" =>
          /\ error.kind \in {"RequestFailedError", "AnalysisError"}
          /\ FetchFailed
    /\ (TLSProbeFailed \/ DNSLookupFailed \/ NarrativeFailed) =>
          /\ pc = "returned"
          /\ error = NoError

\* C10: an exception that is no httpx.HTTPError leaves as an AnalysisError
C10_Witness ==
    /\ pc = "raised"
    /\ FetchFailed
    /\ ~fetch.http_error
    /\ error.kind = "AnalysisError"

ResultKeys ==
    {"url", "status_code", "security_score", "score_breakdown", "headers",
     "analysis", "ssl", "recommendations", "passed_checks", "failed_checks",
     "risk_level", "timestamp"}

\* the keys every HeaderAnalysis and every TLSAnalysis has
AnalysisKeys ==
    {"missing_essential", "deprecated", "insecure", "csp_issues", "cookie_issues",
     "cors_issues", "hsts_issues", "additional_headers", "owasp_compliance"}
TLSKeys ==
    {"certificate", "protocols", "weak_ciphers", "compression_enabled",
     "ocsp_stapling", "preload_status"}

\* C11: every completed invocation of analyze_website either returns a
\* result in which url, status code, score, breakdown, headers, analysis,
\* ssl, recommendations, passed checks, failed checks, risk level and
\* timestamp are all populated, or raises an error and returns no result.
C11_NeverPartial ==
    /\ pc = "returned" =>
          /\ error = NoError
          /\ ResultKeys \subseteq DOMAIN response_data
          /\ response_data["url"] = request.url
          /\ response_data["url"] # ""
          /\ response_data["status_code"] \in 100..599
          /\ response_data["security_score"] \in 0..100
          /\ DOMAIN response_data["score_breakdown"] = DOMAIN StartingBudget
          /\ response_data["headers"] = fetch.headers
          /\ AnalysisKeys \subseteq DOMAIN response_data["analysis"]
          /\ TLSKeys \subseteq DOMAIN response_data["ssl"]
          /\ response_data["recommendations"] =
                 generate_recommendations(response_data["analysis"],
                                          response_data["ssl"])
          /\ Len(response_data["passed_checks"])
                + Len(response_data["failed_checks"]) = 6
          /\ response_data["risk_level"] \in {"Low", "Medium", "High"}
          /\ response_data["timestamp"] # ""
    /\ pc = "raised" =>
          /\ error # NoError
          /\ response_data = <<>>
    /\ pc \in {"idle", "fetching"} => (response_data = <<>> /\ error = NoError)

\* C11: a scan whose TLS probe and DNS lookups both failed and whose
\* narrative call raised still returns every field
C11_Witness ==
    /\ pc = "returned"
    /\ TLSProbeFailed
    /\ DNSLookupFailed
    /\ NarrativeFailed
    /\ ResultKeys \subseteq DOMAIN response_data

(***************************************************************************)
(* The rule evaluators on their own: each is called on every input within  *)
(* the bounds, not only on those a scan of the bounded target meets.       *)
(***************************************************************************)

MaxNegotiated == 3
MaxEntries == 2

\* the prefixes of l of length at most n
Prefixes(l, n) == {SubSeq(l, 1, k) : k \in 0..Min({n, Len(l)})}

EssentialNames == {essential_headers[i] : i \in 1..Len(essential_headers)}

\* the value a response carries for each header it may send
RuleHeaderValue ==
    [h \in EssentialNames \cup {"server", "set-cookie"} |->
        CASE h = "content-security-policy" -> "default-src 'self'"
          [] h = "x-content-type-options" -> "nosniff"
          [] h = "x-frame-options" -> "DENY"
          [] h = "strict-transport-security" -> "max-age=100"
          [] h = "x-xss-protection" -> "1; mode=block"
          [] h = "referrer-policy" -> "no-referrer"
          [] h = "permissions-policy" -> "geolocation=()"
          [] h = "cross-origin-opener-policy" -> "same-origin"
          [] h = "cross-origin-embedder-policy" -> "require-corp"
          [] h = "cross-origin-resource-policy" -> "same-origin"
          [] h = "server" -> "nginx"
          [] h = "set-cookie" -> "session=abc; Path=/"]

\* every subset of the essential headers, alone or with the two others
RuleHeaderSets ==
    {[h \in names |-> RuleHeaderValue[h]] :
        names \in {e \cup x : e \in SUBSET EssentialNames,
                               x \in {{}, {"server", "set-cookie"}}}}

\* Set-Cookie values: a name=value pair followed by attributes
CookieValues ==
    {Join("; ", <<pair>> \o path \o secure \o httponly \o samesite \o domain) :
        pair \in {"session=abc", "__Secure-sid=abc"},
        path \in {<<>>, <<"Path=/">>},
        secure \in {<<>>, <<"Secure">>, <<"secure">>},
        httponly \in {<<>>, <<"HttpOnly">>},
        samesite \in {<<>>, <<"SameSite=Lax">>, <<"SameSite=None">>},
        domain \in {<<>>, <<"Domain=example.com">>}}

\* Strict-Transport-Security values: directives separated by "; "
HstsValues ==
    {Join("; ", max_age \o subdomains \o preload) :
        max_age \in {<<>>, <<"max-age=0">>, <<"max-age=100">>,
                     <<"max-age=31535999">>, <<"max-age=31536000">>,
                     <<"max-age=63072000">>, <<"Max-Age=31536000">>},
        subdomains \in {<<>>, <<"includeSubDomains">>, <<"includesubdomains">>,
                        <<"INCLUDESUBDOMAINS">>},
        preload \in {<<>>, <<"preload">>}}

\* Content-Security-Policy values: directives separated by "; ", each a
\* name followed by its source expressions
CspValues ==
    {Join("; ", default_src \o script_src \o object_src \o base_uri \o img_src) :
        default_src \in {<<>>, <<"default-src 'self'">>, <<"default-src *">>,
                         <<"default-src 'self' https://*.example.com">>},
        script_src \in {<<>>, <<"script-src 'self'">>,
                        <<"script-src 'unsafe-inline' 'unsafe-eval'">>,
                        <<"script-src 'unsafe-hashes' 'sha256-abc'">>},
        object_src \in {<<>>, <<"object-src 'none'">>},
        base_uri \in {<<>>, <<"base-uri 'self'">>},
        img_src \in {<<>>, <<"img-src data: http:">>, <<"img-src ftp:">>}}

\* the names of the suites shared_ciphers() may list
NegotiatedSuites ==
    {"TLS_AES_128_GCM_SHA256", "TLS_RSA_WITH_3DES_EDE_CBC_SHA", "RC4-MD5",
     "ECDHE-RSA-AES128-GCM-SHA256"}

NegotiatedLists == UNION {[1..n -> NegotiatedSuites] : n \in 0..MaxNegotiated}

\* probes that get to shared_ciphers(): they succeed, or fail at the call
\* that follows
RuleProbes ==
    {[fail_at |-> f, cause |-> (IF f = "none" THEN "" ELSE StepCause[f]),
      cert |-> GoodCert, version |-> "TLSv1.2", cipher_list |-> l,
      compression |-> "", ocsp_raises |-> FALSE, ocsp |-> FALSE] :
        l \in NegotiatedLists, f \in {"none", "compression"}}

WeakNames == << "RC4-MD5", "DES-CBC3-SHA", "NULL-MD5" >>

\* TLS analyses as ssl_scan leaves them, with and without an error
RuleTLSAnalyses ==
    UNION {{a, Put(a, "error", "timed out")} :
              a \in {[ssl_defaults EXCEPT !.weak_ciphers = w,
                                          !.compression_enabled = c] :
                        w \in Prefixes(WeakNames, MaxEntries), c \in BOOLEAN}}

\* the header analyses of the responses that carry some of the four checked
\* headers and of x-xss-protection
CheckedAnalyses ==
    {analyze_headers(h) :
        h \in {x \in RuleHeaderSets :
                  DOMAIN x \subseteq {"content-security-policy",
                                      "x-content-type-options", "x-frame-options",
                                      "strict-transport-security",
                                      "x-xss-protection"}}}

CspRemarks ==
    << "CSP contains unsafe directive: unsafe-inline",
       "CSP missing important directive: base-uri",
       "CSP contains overly permissive source: data:" >>

WordPressRemarks ==
    << "WordPress header exposed: x-pingback",
       "WordPress version 6.4.2 exposed in HTML",
       "WordPress admin-ajax.php endpoint exposed (consider rate limiting)" >>

\* header analyses whose every list may be empty or not, the WordPress
\* issues there or not
RemarkAnalyses ==
    LET always ==
            [missing_essential : Prefixes(essential_headers, MaxEntries),
             deprecated : Prefixes(deprecated_headers, 1),
             csp_issues : Prefixes(CspRemarks, MaxEntries),
             cookie_issues : Prefixes(<<"Missing Secure flag">>, 1),
             cors_issues :
                 Prefixes(<<"Overly permissive CORS policy: Access-Control-Allow-Origin: *">>, 1),
             hsts_issues : Prefixes(<<"HSTS missing max-age directive">>, 1)]
    IN  always \cup {Put(a, "wordpress_issues", w) :
                        a \in always, w \in Prefixes(WordPressRemarks, MaxEntries)}

\* the headers of a response that tell of the CMS, or do not
CmsHeaderValues ==
    [h \in {"x-powered-by", "link", "x-generator", "x-pingback"} |->
        CASE h = "x-powered-by" -> {"PHP/8.1", "WordPress"}
          [] h = "link" -> {"<https://example.com/wp-json/>; rel=\"https://api.w.org/\"",
                            "<https://example.com/WP-JSON/>",
                            "<https://example.com/style.css>; rel=preload"}
          [] h = "x-generator" -> {"WordPress 6.4", "Hugo"}
          [] h = "x-pingback" -> {"https://example.com/xmlrpc.php"}]

CmsHeaderSets ==
    UNION {[names -> UNION {CmsHeaderValues[h] : h \in names}] :
              names \in SUBSET DOMAIN CmsHeaderValues}

\* header sets in which every header carries one of its own values
CmsResponses == {h \in CmsHeaderSets : \A k \in DOMAIN h : h[k] \in CmsHeaderValues[k]}

CmsBodies ==
    {"<html></html>", "<link href=/wp-content/a.css>",
     "<script src=/WP-INCLUDES/js/a.js></script>",
     "<p>Powered by WordPress 6.4</p>"}

\* analysis.py lines 18 and 35-41: the header analysis of a fetched
\* response with the WordPress issues folded in, its score and its
\* recommendations
site_findings(headers, body, ssl_analysis) ==
    LET header_analysis == analyze_site(headers, body)
        scored == calculate_security_score(header_analysis, ssl_analysis)
    IN  [analysis        |-> header_analysis,
         security_score  |-> scored[1],
         score_breakdown |-> scored[2],
         recommendations |-> generate_recommendations(header_analysis, ssl_analysis)]

RuleCalls ==
    {[fn |-> "analyze_headers", headers |-> h, given |-> h] : h \in RuleHeaderSets}
      \cup {[fn |-> "analyze_cookies", cookie_header |-> c] : c \in CookieValues}
      \cup {[fn |-> "analyze_hsts", hsts_header |-> h] : h \in HstsValues}
      \cup {[fn |-> "analyze_csp", csp_header |-> c] : c \in CspValues}
      \cup {[fn |-> "ssl_scan", probe |-> p] : p \in RuleProbes}
      \cup {[fn |-> "categorize_checks", header_analysis |-> a, ssl_analysis |-> t] :
               a \in CheckedAnalyses, t \in RuleTLSAnalyses}
      \cup {[fn |-> "generate_recommendations", header_analysis |-> a,
             ssl_analysis |-> t] : a \in RemarkAnalyses, t \in RuleTLSAnalyses}
      \cup {[fn |-> "analyze_site", headers |-> h, body |-> b,
             ssl_analysis |-> ssl_defaults] : h \in CmsResponses, b \in CmsBodies}

\* a call that pops the cookie header off the dict it was handed
analyze_headers_call_consuming(headers) ==
    [returns |-> analyze_headers(headers),
     headers |-> [h \in (DOMAIN headers) \ {"set-cookie"} |-> headers[h]]]

\* a call of analyze_headers through its parameter: the dict it returns and
\* the dict it was handed, as the call leaves it.  No statement of the
\* function assigns to headers or to an item of it.
analyze_headers_call(headers) ==
    [returns |-> analyze_headers(headers), headers |-> headers]

InitRules ==
    /\ gemini_model = FALSE
    /\ ScanIdle
    /\ score_call = NoCall
    /\ score_return = <<>>
    /\ FramesIdle
    /\ rule_call \in RuleCalls
    /\ rule_return = <<>>
    /\ others = <<>>
    /\ LimiterIdle

\* analyze_headers is called on the HeaderSet, a first and a second time
AnalyzeHeaders ==
    /\ rule_call.fn = "analyze_headers"
    /\ Len(rule_return) < 2
    /\ LET call == analyze_headers_call(rule_call.headers)
       IN  /\ rule_call' = [rule_call EXCEPT !.headers = call.headers]
           /\ rule_return' = Append(rule_return, call.returns)
    /\ UNCHANGED others
    /\ UNCHANGED << scan_vars, score_vars, frame_vars, limit_vars >>

\* between the two calls another scan has analyze_headers analyse the
\* HeaderSet of its own response; headers.py keeps no module-level state
\* for that call to write
AnalyzeOther ==
    /\ rule_call.fn = "analyze_headers"
    /\ Len(rule_return) = 1
    /\ others = <<>>
    /\ \E h \in HeaderSets :
          /\ Cardinality(DOMAIN h) = 1
          /\ analyze_headers_call(h).headers = h
          /\ others' = <<h>>
    /\ UNCHANGED << rule_call, rule_return >>
    /\ UNCHANGED << scan_vars, score_vars, frame_vars, limit_vars >>

AnalyzeCookies ==
    /\ rule_call.fn = "analyze_cookies"
    /\ rule_return = <<>>
    /\ rule_return' = <<analyze_cookies(rule_call.cookie_header)>>
    /\ UNCHANGED << rule_call, others >>
    /\ UNCHANGED << scan_vars, score_vars, frame_vars, limit_vars >>

AnalyzeHsts ==
    /\ rule_call.fn = "analyze_hsts"
    /\ rule_return = <<>>
    /\ rule_return' = <<analyze_hsts(rule_call.hsts_header)>>
    /\ UNCHANGED << rule_call, others >>
    /\ UNCHANGED << scan_vars, score_vars, frame_vars, limit_vars >>

AnalyzeCsp ==
    /\ rule_call.fn = "analyze_csp"
    /\ rule_return = <<>>
    /\ rule_return' = <<analyze_csp(rule_call.csp_header)>>
    /\ UNCHANGED << rule_call, others >>
    /\ UNCHANGED << scan_vars, score_vars, frame_vars, limit_vars >>

SslScan ==
    /\ rule_call.fn = "ssl_scan"
    /\ rule_return = <<>>
    /\ rule_return' = <<ssl_scan(rule_call.probe)>>
    /\ UNCHANGED << rule_call, others >>
    /\ UNCHANGED << scan_vars, score_vars, frame_vars, limit_vars >>

CategorizeChecks ==
    /\ rule_call.fn = "categorize_checks"
    /\ rule_return = <<>>
    /\ rule_return' = <<categorize_checks(rule_call.header_analysis,
                                          rule_call.ssl_analysis)>>
    /\ UNCHANGED << rule_call, others >>
    /\ UNCHANGED << scan_vars, score_vars, frame_vars, limit_vars >>

GenerateRecommendations ==
    /\ rule_call.fn = "generate_recommendations"
    /\ rule_return = <<>>
    /\ rule_return' = <<generate_recommendations(rule_call.header_analysis,
                                                 rule_call.ssl_analysis)>>
    /\ UNCHANGED << rule_call, others >>
    /\ UNCHANGED << scan_vars, score_vars, frame_vars, limit_vars >>

AnalyzeSite ==
    /\ rule_call.fn = "analyze_site"
    /\ rule_return = <<>>
    /\ rule_return' = <<site_findings(rule_call.headers, rule_call.body,
                                      rule_call.ssl_analysis)>>
    /\ UNCHANGED << rule_call, others >>
    /\ UNCHANGED << scan_vars, score_vars, frame_vars, limit_vars >>

NextRules ==
    \/ AnalyzeHeaders
    \/ AnalyzeOther
    \/ AnalyzeCookies
    \/ AnalyzeHsts
    \/ AnalyzeCsp
    \/ SslScan
    \/ CategorizeChecks
    \/ GenerateRecommendations
    \/ AnalyzeSite

SpecRules == InitRules /\ [][NextRules]_vars

(***************************************************************************)
(* Properties of the rule evaluators, under SpecRules.                     *)
(***************************************************************************)

\* the evaluator fn has been called and has returned
Called(fn) == rule_call.fn = fn /\ rule_return # <<>>

\* the place of an essential header in the canonical list
CanonicalPlace(h) ==
    CHOOSE i \in 1..Len(essential_headers) : essential_headers[i] = h

\* C12: for every HeaderSet, missing_essential is exactly the canonical
\* ten-header essential list restricted to the headers absent from the
\* HeaderSet, in canonical order; when all ten are absent it is the full
\* canonical list and the headers breakdown category is at most 10.
C12_MissingEssentialCanonical ==
    Called("analyze_headers") =>
        \A n \in 1..Len(rule_return) :
            LET missing == rule_return[n]["missing_essential"]
                absent == EssentialNames \ DOMAIN rule_call.given
            IN  /\ Len(essential_headers) = 10
                /\ Cardinality(EssentialNames) = 10
                /\ {missing[i] : i \in 1..Len(missing)} = absent
                /\ \A i, j \in 1..Len(missing) :
                      i < j => CanonicalPlace(missing[i]) < CanonicalPlace(missing[j])
                /\ absent = EssentialNames =>
                      /\ missing = essential_headers
                      /\ \A t \in RuleTLSAnalyses :
                            calculate_security_score(rule_return[n], t)[2]["headers"]
                                <= 10

\* C12: a response with none of the ten essential headers and a deprecated
\* one
C12_Witness ==
    /\ Called("analyze_headers")
    /\ DOMAIN rule_call.given = {"server", "set-cookie"}
    /\ rule_return[1]["missing_essential"] = essential_headers
    /\ calculate_security_score(rule_return[1], ssl_defaults)[2]["headers"] = 8

HeaderParts(value) == Stripped(Split(value, ";"))

\* the name of a part: what precedes its "=", lower-cased
PartName(part) == Lower(Strip(Split(part, "=")[1]))

\* what follows the "=" of a part
PartValue(part) ==
    IF Len(Split(part, "=")) >= 2 THEN Strip(Split(part, "=")[2]) ELSE ""

\* the attributes of a Set-Cookie value: the parts after the name=value pair
CookieAttributes(cookie_header) == Tail(HeaderParts(cookie_header))

CarriesAttribute(cookie_header, name) ==
    \E i \in 1..Len(CookieAttributes(cookie_header)) :
        PartName(CookieAttributes(cookie_header)[i]) = name

\* C14: for every Set-Cookie value that carries no Secure flag, no HttpOnly
\* flag, no SameSite attribute and no Domain attribute, analyze_cookies
\* returns exactly three issues, in this order: missing Secure, missing
\* HttpOnly, missing SameSite.
C14_BareCookieThreeIssues ==
    (/\ Called("analyze_cookies")
     /\ ~CarriesAttribute(rule_call.cookie_header, "secure")
     /\ ~CarriesAttribute(rule_call.cookie_header, "httponly")
     /\ ~CarriesAttribute(rule_call.cookie_header, "samesite")
     /\ ~CarriesAttribute(rule_call.cookie_header, "domain")) =>
        rule_return[1] = << "Missing Secure flag", "Missing HttpOnly flag",
                            "Missing SameSite attribute" >>

\* an issue whose text contains `text` is among the issues
Reports(issues, text) == \E i \in 1..Len(issues) : Contains(text, issues[i])

HasDirective(value, name) ==
    \E i \in 1..Len(HeaderParts(value)) : PartName(HeaderParts(value)[i]) = name

\* the number a max-age directive of the value carries
MaxAgeOf(value) ==
    LET i == CHOOSE i \in 1..Len(HeaderParts(value)) :
                 PartName(HeaderParts(value)[i]) = "max-age"
    IN  ParseInt(PartValue(HeaderParts(value)[i]))

\* C15: for every Strict-Transport-Security value, analyze_hsts reports a
\* missing-max-age issue iff no max-age directive is present, a
\* short-max-age issue (naming the observed value) iff the max-age value is
\* numerically below 31536000, and a missing-includeSubDomains issue iff
\* includesubdomains is absent case-insensitively; `max-age=100` yields
\* exactly two issues and `max-age=31536000; includeSubDomains` none.
C15_HstsIssues ==
    Called("analyze_hsts") =>
        LET value == rule_call.hsts_header
            issues == rule_return[1]
            short == HasDirective(value, "max-age") /\ MaxAgeOf(value) < 31536000
        IN  /\ Reports(issues, "missing max-age") <=> ~HasDirective(value, "max-age")
            /\ Reports(issues, "max-age too short") <=> short
            /\ short => Reports(issues, "too short: " \o ToString(MaxAgeOf(value))
                                           \o " ")
            /\ Reports(issues, "missing includeSubDomains")
                   <=> ~HasDirective(value, "includesubdomains")
            /\ value = "max-age=100" => Len(issues) = 2
            /\ value = "max-age=31536000; includeSubDomains" => issues = <<>>

\* the words of a directive: its name, then its source expressions
DirectiveWords(directive) == Split(directive, " ")

HasDirectiveName(policy, name) ==
    \E i \in 1..Len(HeaderParts(policy)) :
        DirectiveWords(HeaderParts(policy)[i])[1] = name

HasSourceToken(policy, token) ==
    \E i \in 1..Len(HeaderParts(policy)) :
        \E j \in 2..Len(DirectiveWords(HeaderParts(policy)[i])) :
            DirectiveWords(HeaderParts(policy)[i])[j] = token

\* the issues the claim lists for a policy
ListedCspIssues(policy) ==
    LET unsafe(k) == HasSourceToken(policy, "'" \o k \o "'")
        absent(n) == ~HasDirectiveName(policy, n)
        permissive(t) == HasSourceToken(policy, t)
    IN  Prefixed("CSP contains unsafe directive: ",
                 SelectSeq(<<"unsafe-inline", "unsafe-eval", "unsafe-hashes">>,
                           unsafe))
          \o Prefixed("CSP missing important directive: ",
                      SelectSeq(<<"default-src", "script-src", "object-src",
                                  "base-uri">>, absent))
          \o Prefixed("CSP contains overly permissive source: ",
                      SelectSeq(<<"*", "'unsafe-inline'", "data:", "http:", "ftp:">>,
                                permissive))

\* C16: for every Content-Security-Policy value, csp_issues is the
\* concatenation, in this order, of one issue per unsafe directive present,
\* one per important directive name absent and one per overly permissive
\* source token present; for `default-src 'self'` it is exactly the three
\* missing-directive issues for script-src, object-src and base-uri.
C16_CspIssues ==
    Called("analyze_csp") =>
        /\ rule_return[1] = ListedCspIssues(rule_call.csp_header)
        /\ rule_call.csp_header = "default-src 'self'" =>
              rule_return[1] = << "CSP missing important directive: script-src",
                                  "CSP missing important directive: object-src",
                                  "CSP missing important directive: base-uri" >>

\* a sequence has x among its entries
Among(x, l) == \E i \in 1..Len(l) : l[i] = x

\* C17: weak_ciphers is exactly the sub-list, in negotiated order, of the
\* shared cipher names whose lower-cased form contains one of the
\* substrings rc4, des, 3des, md5; TLS_RSA_WITH_3DES_EDE_CBC_SHA is
\* classified weak and TLS_AES_128_GCM_SHA256 is not.
C17_WeakCiphersBySubstring ==
    Called("ssl_scan") =>
        LET shared == rule_call.probe.cipher_list
            weak_ciphers == rule_return[1]["weak_ciphers"]
            banned(name) ==
                \E w \in {"rc4", "des", "3des", "md5"} : Contains(w, Lower(name))
        IN  /\ weak_ciphers = SelectSeq(shared, banned)
            /\ Among("TLS_RSA_WITH_3DES_EDE_CBC_SHA", shared)
                  => Among("TLS_RSA_WITH_3DES_EDE_CBC_SHA", weak_ciphers)
            /\ ~Among("TLS_AES_128_GCM_SHA256", weak_ciphers)

\* C17: both named suites are shared, with a third that is weak
C17_Witness ==
    /\ Called("ssl_scan")
    /\ rule_call.probe.cipher_list =
           << "RC4-MD5", "TLS_AES_128_GCM_SHA256", "TLS_RSA_WITH_3DES_EDE_CBC_SHA" >>
    /\ rule_return[1]["weak_ciphers"] =
           << "RC4-MD5", "TLS_RSA_WITH_3DES_EDE_CBC_SHA" >>

\* s starts with prefix
StartsWith(s, prefix) ==
    Len(s) >= Len(prefix) /\ SubSeq(s, 1, Len(prefix)) = prefix

\* some entry of l starts with prefix
AmongStarting(prefix, l) == \E i \in 1..Len(l) : StartsWith(l[i], prefix)

\* C18: for every input, categorize_checks emits exactly one line per check
\* for its six checks (the four headers, then weak ciphers, then
\* compression): each check contributes to exactly one of passed or failed,
\* so len(passed) + len(failed) = 6.
C18_OneLinePerCheck ==
    Called("categorize_checks") =>
        LET passed == rule_return[1][1]
            failed == rule_return[1][2]
        IN  /\ Len(passed) + Len(failed) = 6
            /\ \A h \in {"content-security-policy", "x-content-type-options",
                         "x-frame-options", "strict-transport-security"} :
                  Among("Header present: " \o h, passed)
                      <=> ~Among("Header missing: " \o h, failed)
            /\ Among("No weak cipher suites", passed)
                   <=> ~AmongStarting("Weak ciphers found: ", failed)
            /\ Among("TLS compression disabled", passed)
                   <=> ~AmongStarting("TLS compression enabled", failed)

\* C18: checks of both outcomes, on a TLS analysis that carries an error
C18_Witness ==
    /\ Called("categorize_checks")
    /\ "error" \in DOMAIN rule_call.ssl_analysis
    /\ rule_call.ssl_analysis["weak_ciphers"] # <<>>
    /\ ~rule_call.ssl_analysis["compression_enabled"]
    /\ Len(rule_return[1][1]) = 3
    /\ Len(rule_return[1][2]) = 3

\* what the entries of each section start with, in the order of the sections
SectionOpenings ==
    << "Add missing security header: ", "Remove deprecated header: ",
       "CSP issue: ", "Cookie security issue: ", "CORS issue: ", "HSTS issue: ",
       "WordPress issue: ", "Disable weak cipher suites: ",
       "Disable TLS compression", "Fix SSL error: " >>

\* the section an entry belongs to; 0 when it belongs to none
SectionOf(entry) ==
    IF \E k \in 1..Len(SectionOpenings) : StartsWith(entry, SectionOpenings[k])
    THEN CHOOSE k \in 1..Len(SectionOpenings) : StartsWith(entry, SectionOpenings[k])
    ELSE 0

\* C20: generate_recommendations emits its entries in a fixed section order
\* (missing-header remediations, deprecated-header removals, CSP, cookie,
\* CORS, HSTS, CMS issue remarks, one combined weak-cipher message, the
\* compression message, then the TLS-error message) with the entries of a
\* section in the order of the source list; no entry of a later section
\* precedes an entry of an earlier one.
C20_SectionOrder ==
    Called("generate_recommendations") =>
        LET entries == rule_return[1]
            a == rule_call.header_analysis
            t == rule_call.ssl_analysis
            source ==
                << a["missing_essential"], a["deprecated"], a["csp_issues"],
                   a["cookie_issues"], a["cors_issues"], a["hsts_issues"],
                   Get(a, "wordpress_issues", <<>>) >>
            Section(k) ==
                LET inSection(e) == SectionOf(e) = k
                IN  SelectSeq(entries, inSection)
        IN  /\ \A i \in 1..Len(entries) : SectionOf(entries[i]) # 0
            /\ \A i, j \in 1..Len(entries) :
                  i < j => SectionOf(entries[i]) <= SectionOf(entries[j])
            /\ \A k \in 1..7 : Section(k) = Prefixed(SectionOpenings[k], source[k])
            /\ Section(8) =
                  (IF t["weak_ciphers"] # <<>>
                   THEN <<"Disable weak cipher suites: " \o Join(", ", t["weak_ciphers"])>>
                   ELSE <<>>)
            /\ Len(Section(9)) = (IF t["compression_enabled"] THEN 1 ELSE 0)
            /\ Section(10) =
                  (IF "error" \in DOMAIN t THEN <<"Fix SSL error: " \o t["error"]>>
                   ELSE <<>>)

\* C20: a call whose every section has an entry, three of them two
C20_Witness ==
    /\ Called("generate_recommendations")
    /\ Len(rule_call.header_analysis["missing_essential"]) = 2
    /\ Len(rule_call.header_analysis["csp_issues"]) = 2
    /\ "wordpress_issues" \in DOMAIN rule_call.header_analysis
    /\ Len(rule_call.header_analysis["wordpress_issues"]) = 2
    /\ Len(rule_call.ssl_analysis["weak_ciphers"]) = 2
    /\ {SectionOf(rule_return[1][i]) : i \in 1..Len(rule_return[1])} = 1..10
    /\ Len(rule_return[1]) = 13

\* C28: in every HeaderAnalysis returned by analyze_headers, a non-empty
\* csp_issues implies content-security-policy is not in missing_essential
\* and a non-empty hsts_issues implies strict-transport-security is not in
\* missing_essential: the two evaluators run only on a header that is there.
C28_IssuesOnlyForPresentHeaders ==
    Called("analyze_headers") =>
        \A i \in 1..Len(rule_return) :
            /\ rule_return[i]["csp_issues"] # <<>> =>
                   ~Among("content-security-policy", rule_return[i]["missing_essential"])
            /\ rule_return[i]["hsts_issues"] # <<>> =>
                   ~Among("strict-transport-security", rule_return[i]["missing_essential"])

\* C28: a response with a CSP but no HSTS header: CSP issues are reported,
\* HSTS is missing and has no issues
C28_Witness ==
    /\ Called("analyze_headers")
    /\ "content-security-policy" \in DOMAIN rule_call.given
    /\ "strict-transport-security" \notin DOMAIN rule_call.given
    /\ rule_return[1]["csp_issues"] # <<>>
    /\ rule_return[1]["hsts_issues"] = <<>>
    /\ Among("strict-transport-security", rule_return[1]["missing_essential"])
    /\ ~Among("content-security-policy", rule_return[1]["missing_essential"])

\* the five signals of a CMS, read off the response
CmsSignals(headers, body) ==
    << "x-powered-by" \in DOMAIN headers
           /\ Contains("wordpress", Lower(headers["x-powered-by"])),
       "link" \in DOMAIN headers /\ Contains("wp-json", Lower(headers["link"])),
       \E k \in DOMAIN headers : Contains("wordpress", Lower(headers[k])),
       Contains("wp-content", Lower(body)),
       Contains("wp-includes", Lower(body)) >>

\* C22: CMS detection is the OR of five signals (x-powered-by naming the
\* CMS, a link header with the REST discovery path, any header value naming
\* the CMS, two body asset-path substrings); the CMS analysis runs and
\* wordpress_issues is present in the HeaderAnalysis if and only if
\* detection is true, and when detection is false the CMS contributes no
\* penalty and no recommendation.
C22_CmsDetection ==
    Called("analyze_site") =>
        LET found == rule_return[1]
            signals == CmsSignals(rule_call.headers, rule_call.body)
            detected == \E i \in 1..5 : signals[i]
            plain == calculate_security_score(analyze_headers(rule_call.headers),
                                              rule_call.ssl_analysis)
        IN  /\ "wordpress_issues" \in DOMAIN found.analysis <=> detected
            /\ detected =>
                   found.analysis["wordpress_issues"] =
                       analyze_wordpress_headers(rule_call.headers, rule_call.body)
            /\ ~detected =>
                   /\ found.score_breakdown["wordpress"] = 5
                   /\ found.security_score = plain[1]
                   /\ found.score_breakdown = plain[2]
                   /\ ~AmongStarting("WordPress issue: ", found.recommendations)

\* C22: a site detected by its body alone, with an issue, a penalty and a
\* recommendation
C22_Witness ==
    /\ Called("analyze_site")
    /\ CmsSignals(rule_call.headers, rule_call.body) =
           << FALSE, FALSE, FALSE, FALSE, TRUE >>
    /\ "x-pingback" \in DOMAIN rule_call.headers
    /\ "wordpress_issues" \in DOMAIN rule_return[1].analysis
    /\ rule_return[1].score_breakdown["wordpress"] < 5
    /\ AmongStarting("WordPress issue: ", rule_return[1].recommendations)

(***************************************************************************)
(* Two invocations of analyze_website in flight.  The view runs each in    *)
(* a thread of its own through async_to_sync, so the statements of two     *)
(* coroutines interleave; a frame holds the locals of one coroutine.  What *)
(* the two share is gemini.py's module-level gemini_model.                 *)
(***************************************************************************)

ScanIds == {1, 2}

IdleFrame ==
    [pc |-> "idle", request |-> NoRequest, model_at_call |-> FALSE,
     overlapped |-> FALSE, fetch |-> NoProbe, tls |-> NoProbe, dns |-> NoProbe,
     gemini |-> NoProbe, header_analysis |-> <<>>, ssl_analysis |-> <<>>,
     dns_analysis |-> <<>>, response_data |-> <<>>, error |-> NoError]

\* what the targets of the two scans may answer
FrameHeaderSets == {<<>>, [h \in {"x-powered-by"} |-> "WordPress"]}
FrameBodies == {"<html></html>"}
FrameFailures == {f \in FetchFailures : f.exception \in {"ConnectError", "InvalidURL"}}
FrameTLSProbes ==
    {p \in TLSProbes :
        \/ p.fail_at = "handshake"
        \/ /\ p.fail_at = "none"
           /\ p.cipher_list = SubSeq(CipherSuites, 1, 2)
           /\ p.compression = ""
           /\ ~p.ocsp_raises}
FrameDNSProbes == {d \in DNSProbes : ~d.reachable \/ d.dnskey}

\* the coroutine other than i is between its call and its return
OtherInFlight(i) ==
    \E j \in ScanIds \ {i} : scans[j].pc \in {"fetching", "analysing", "scoring"}

\* coroutine i takes a step that leaves its frame as `frame`
Step(i, frame) ==
    scans' = [scans EXCEPT ![i] =
                 [frame EXCEPT !.overlapped = @ \/ OtherInFlight(i)]]

\* analysis.py lines 35-66, from the locals of a frame: the WordPress
\* issues, the score, the dict and the narrative
build_response(frame, g, model) ==
    LET headers == frame.fetch.headers
        body == frame.fetch.body
        header_analysis ==
            IF check_wordpress(headers, body)
            THEN Put(frame.header_analysis, "wordpress_issues",
                     analyze_wordpress_headers(headers, body))
            ELSE frame.header_analysis
        scored == calculate_security_score(header_analysis, frame.ssl_analysis)
        checks == categorize_checks(header_analysis, frame.ssl_analysis)
        data ==
            [url             |-> frame.request.url,
             status_code     |-> 200,
             security_score  |-> scored[1],
             score_breakdown |-> scored[2],
             headers         |-> headers,
             analysis        |-> header_analysis,
             ssl             |-> frame.ssl_analysis,
             dns             |-> frame.dns_analysis,
             recommendations |->
                 generate_recommendations(header_analysis, frame.ssl_analysis),
             passed_checks   |-> checks[1],
             failed_checks   |-> checks[2],
             risk_level      |-> risk_level_of(scored[1]),
             timestamp       |-> Timestamp]
    IN  IF frame.request.include_gemini_analysis
        THEN Put(data, "gemini_analysis", generate_gemini_analysis(model, g, data))
        ELSE data

\* a narrative call that drops the client once generate_content has raised
gemini_model_after_dropping(model, g) == model /\ ~g.raises

\* the module-level gemini_model after a call of generate_gemini_analysis:
\* the function reads the name and has no `global` statement, so the
\* binding made at import stays
gemini_model_after(model, g) == model

InitFrames ==
    /\ gemini_model \in BOOLEAN
    /\ ScanIdle
    /\ score_call = NoCall
    /\ score_return = <<>>
    /\ RulesIdle
    /\ scans = [i \in ScanIds |-> IdleFrame]
    /\ LimiterIdle

\* a view calls analyze_website
FrameCall ==
    \E i \in ScanIds :
        /\ scans[i].pc = "idle"
        /\ \E url \in URLs, include_gemini_analysis \in BOOLEAN, deep_scan \in BOOLEAN :
              Step(i, [scans[i] EXCEPT
                          !.pc = "fetching",
                          !.model_at_call = gemini_model,
                          !.request = [url |-> url,
                                       include_gemini_analysis |-> include_gemini_analysis,
                                       deep_scan |-> deep_scan]])
        /\ UNCHANGED << scan_vars, score_vars, rule_vars, limit_vars >>

\* line 16 raises: the coroutine ends in the except clause
FrameFetchFails ==
    \E i \in ScanIds :
        /\ scans[i].pc = "fetching"
        /\ \E failure \in FrameFailures :
              Step(i, [scans[i] EXCEPT
                          !.pc = "raised",
                          !.fetch = failure,
                          !.error = analysis_error(fetch_error(failure))])
        /\ UNCHANGED << scan_vars, score_vars, rule_vars, limit_vars >>

\* line 16 returns headers and body
FrameFetchReturns ==
    \E i \in ScanIds :
        /\ scans[i].pc = "fetching"
        /\ \E headers \in FrameHeaderSets, body \in FrameBodies :
              Step(i, [scans[i] EXCEPT
                          !.pc = "analysing",
                          !.fetch = [headers |-> headers, body |-> body]])
        /\ UNCHANGED << scan_vars, score_vars, rule_vars, limit_vars >>

\* lines 18-33: the header analysis and the two probes
FrameProbes ==
    \E i \in ScanIds :
        /\ scans[i].pc = "analysing"
        /\ \E p \in FrameTLSProbes,
              d \in (IF scans[i].request.deep_scan THEN FrameDNSProbes ELSE {NoProbe}) :
              Step(i, [scans[i] EXCEPT
                          !.pc = "scoring",
                          !.tls = p,
                          !.dns = d,
                          !.header_analysis = analyze_headers(scans[i].fetch.headers),
                          !.ssl_analysis = ssl_scan(p),
                          !.dns_analysis =
                              IF scans[i].request.deep_scan THEN dns_scan(d) ELSE <<>>])
        /\ UNCHANGED << scan_vars, score_vars, rule_vars, limit_vars >>

\* lines 35-66: the result is built and returned; the narrative call reads
\* the module-level gemini_model
FrameReturns ==
    \E i \in ScanIds :
        /\ scans[i].pc = "scoring"
        /\ \E g \in (IF scans[i].request.include_gemini_analysis
                     THEN GeminiOutcomes ELSE {NoProbe}) :
              /\ Step(i, [scans[i] EXCEPT
                             !.pc = "returned",
                             !.gemini = g,
                             !.response_data = build_response(scans[i], g, gemini_model)])
              /\ gemini_model' =
                     IF scans[i].request.include_gemini_analysis
                     THEN gemini_model_after(gemini_model, g) ELSE gemini_model
        /\ UNCHANGED << pc, request, fetch, tls, dns, gemini, response_data, error >>
        /\ UNCHANGED << score_vars, rule_vars, limit_vars >>

NextFrames ==
    FrameCall \/ FrameFetchFails \/ FrameFetchReturns \/ FrameProbes \/ FrameReturns

SpecFrames == InitFrames /\ [][NextFrames]_vars

\* the result scan i returns when it runs alone against the answers its
\* frame got
AloneResult(i) ==
    analyze_response(scans[i].request, scans[i].fetch.headers, scans[i].fetch.body,
                     scans[i].tls, scans[i].dns, scans[i].gemini,
                     scans[i].model_at_call)

\* C19: concurrent scans do not interfere: for any interleaving of two
\* analyze_website invocations, each returns the result it would return
\* when run alone against the same probe responses, because no scan writes
\* state that another scan reads.
C19_ScansDoNotInterfere ==
    /\ \A i \in ScanIds :
          /\ scans[i].pc = "returned" =>
                /\ scans[i].response_data = AloneResult(i)
                /\ scans[i].error = NoError
          /\ scans[i].pc = "raised" =>
                /\ scans[i].error = analysis_error(fetch_error(scans[i].fetch))
                /\ scans[i].response_data = <<>>
    /\ \A i \in ScanIds : scans[i].pc # "idle" => scans[i].model_at_call = gemini_model

\* C19: two scans that overlapped and differ in every answer they got, the
\* narrative call of the first raising
C19_Witness ==
    /\ scans[1].pc = "returned"
    /\ scans[2].pc = "returned"
    /\ scans[1].overlapped
    /\ scans[2].overlapped
    /\ gemini_model
    /\ scans[1].request.include_gemini_analysis
    /\ scans[2].request.include_gemini_analysis
    /\ scans[1].gemini.raises
    /\ ~scans[2].gemini.raises
    /\ scans[1].fetch.headers # scans[2].fetch.headers
    /\ scans[1].tls.fail_at = "handshake"
    /\ scans[2].tls.fail_at = "none"
    /\ scans[1].response_data # scans[2].response_data

(***************************************************************************)
(* api/views.py: AnalyzeView.post around analyze_website.                  *)
(***************************************************************************)

\* the Response of post for a request that passed the serializer and asks
\* for JSON: the except clauses of lines 58-68 for an exception leaving
\* analyze_website, the serialized result otherwise
post_response(e, result) ==
    IF e.kind = "RequestFailedError"
    THEN [status |-> 400, data |-> [detail |-> e.message]]
    ELSE IF e.kind = "AnalysisError"
    THEN [status |-> 500, data |-> [detail |-> e.message]]
    ELSE IF e.kind # ""
    THEN [status |-> 500, data |-> [detail |-> "An unexpected error occurred"]]
    ELSE [status |-> 200, data |-> result]

(***************************************************************************)
(* Further properties of analyze_website and of the view, under Spec.      *)
(***************************************************************************)

\* C23: within one scan the fetch, the TLS probe and (under deepScan) the
\* DNS probe are issued concurrently, the TLS and DNS probes being started
\* without waiting for the fetch to complete: while the fetch is out, and
\* when it has failed, the probes have been started.
C23_ProbesIssuedWithFetch ==
    pc \in {"fetching", "raised"} =>
        /\ tls # NoProbe
        /\ request.deep_scan => dns # NoProbe

\* C25: when the fetch of the target website fails, AnalyzeView.post
\* answers with HTTP 400 and the failure detail; it answers HTTP 500 only
\* for failures that occur during analysis after a successful fetch.
C25_FetchFailureAnswers400 ==
    pc \in {"returned", "raised"} =>
        LET response == post_response(error, response_data)
        IN  /\ FetchFailed =>
                  /\ response.status = 400
                  /\ Contains(fetch.text, response.data.detail)
            /\ response.status = 500 => FetchSucceeded

\* C30: the checklist and the recommendations agree in every result: for
\* each of the four checked headers 'Header missing: h' is in failed_checks
\* exactly when 'Add missing security header: h' is in recommendations; the
\* weak-cipher failed line is present exactly when the 'Disable weak cipher
\* suites' recommendation is; the compression failed line is present
\* exactly when the 'Disable TLS compression' recommendation is.
C30_ChecklistAgreesWithRecommendations ==
    pc = "returned" =>
        LET failed == response_data["failed_checks"]
            recommendations == response_data["recommendations"]
        IN  /\ \A i \in 1..Len(checked_headers) :
                  Among("Header missing: " \o checked_headers[i], failed)
                    <=> Among("Add missing security header: " \o checked_headers[i],
                              recommendations)
            /\ AmongStarting("Weak ciphers found: ", failed)
                 <=> AmongStarting("Disable weak cipher suites: ", recommendations)
            /\ Among("TLS compression enabled (CRIME vulnerability risk)", failed)
                 <=> Among("Disable TLS compression (CRIME vulnerability risk)",
                           recommendations)

\* C30: a result whose probe failed after the suites were read, with a
\* checked header present, others missing, weak suites and compression
C30_Witness ==
    /\ pc = "returned"
    /\ "error" \in DOMAIN response_data["ssl"]
    /\ Among("Header present: strict-transport-security", response_data["passed_checks"])
    /\ Among("Header missing: x-frame-options", response_data["failed_checks"])
    /\ AmongStarting("Weak ciphers found: ", response_data["failed_checks"])
    /\ AmongStarting("Disable weak cipher suites: ", response_data["recommendations"])

(***************************************************************************)
(* api/middleware/rate_limit.py: RateLimitMiddleware.  The server handles  *)
(* requests on several threads; each runs __call__ on its own locals and   *)
(* meets the others in the cache only, at cache.get and at cache.set.      *)
(* limiter holds the two settings, the cache and the requests received;    *)
(* no cache entry expires during the behaviours of the model, which are    *)
(* those of one rate period.                                               *)
(***************************************************************************)

MaxRequests == 3

\* the values RATE_LIMIT and an API key's 'limit' may be configured to
Rates == {"1/second", "2/minute", "2", "1/fortnight", ""}

Paths == {"/api/analyze/", "/health/"}

\* the api-key header of a request; NoHeader when it is not sent
NoHeader == "<none>"
ApiKeyHeaders == {NoHeader, "default-key"}

get_rate_limit(settings, api_key) ==
    IF api_key \in DOMAIN settings.API_KEYS
    THEN settings.API_KEYS[api_key]["limit"]
    ELSE settings.RATE_LIMIT

parse_rate(rate) ==
    IF ~Contains("/", rate)
    THEN << ParseInt(rate), 60 >>
    ELSE LET parts == Split(rate, "/")
             num == ParseInt(parts[1])
             period == parts[2]
         IN  << num,
                CASE period = "second" -> 1
                  [] period = "minute" -> 60
                  [] period = "hour" -> 3600
                  [] period = "day" -> 86400
                  [] OTHER -> 60 >>

\* f'ratelimit:{api_key}:{request.path}'
cache_key(api_key, path) == "ratelimit:" \o api_key \o ":" \o path

\* lines 13-23 for one request: it is handed on at once, or it gets to the
\* cache with its limit, period and key
received(settings, path, header) ==
    LET api_key == IF header = NoHeader THEN "anonymous" ELSE header
        rate_limit == get_rate_limit(settings, api_key)
        outside == ~StartsWith(path, "/api/")
        passes == outside \/ rate_limit = ""
        rate == IF passes THEN << 0, 0 >> ELSE parse_rate(rate_limit)
    IN  [path    |-> path,
         api_key |-> api_key,
         limited |-> ~passes,
         limit   |-> rate[1],
         period  |-> rate[2],
         key     |-> IF passes THEN "" ELSE cache_key(api_key, path),
         current |-> 0,
         status  |-> 0,
         pc      |-> IF passes THEN "passed" ELSE "get"]

InitRate ==
    /\ gemini_model = FALSE
    /\ ScanIdle
    /\ score_call = NoCall
    /\ score_return = <<>>
    /\ RulesIdle
    /\ FramesIdle
    /\ \E rate \in Rates, key_rate \in Rates :
          limiter = [settings |-> [RATE_LIMIT |-> rate,
                                   API_KEYS |-> [k \in {"default-key"} |->
                                                    [limit |-> key_rate]]],
                     cache    |-> <<>>,
                     requests |-> <<>>]

\* a request arrives and runs to the cache.get of line 25, or is handed on
Receive ==
    /\ Len(limiter.requests) < MaxRequests
    /\ \E path \in Paths, header \in ApiKeyHeaders :
          limiter' = [limiter EXCEPT !.requests =
                         Append(@, received(limiter.settings, path, header))]
    /\ UNCHANGED << scan_vars, score_vars, rule_vars, frame_vars >>

\* lines 25-30: the counter is read; at the limit the request is answered 429
CacheGet ==
    /\ \E i \in 1..Len(limiter.requests) :
          /\ limiter.requests[i].pc = "get"
          /\ LET current == Get(limiter.cache, limiter.requests[i].key, 0)
             IN  limiter' =
                     [limiter EXCEPT !.requests[i] =
                         IF current >= @.limit
                         THEN [@ EXCEPT !.current = current, !.status = 429,
                                        !.pc = "rejected"]
                         ELSE [@ EXCEPT !.current = current, !.pc = "set"]]
    /\ UNCHANGED << scan_vars, score_vars, rule_vars, frame_vars >>

\* lines 32-33: the counter read is written back plus one and the request is
\* handed on
CacheSet ==
    /\ \E i \in 1..Len(limiter.requests) :
          /\ limiter.requests[i].pc = "set"
          /\ limiter' =
                 [limiter EXCEPT !.cache = Put(@, limiter.requests[i].key,
                                                limiter.requests[i].current + 1),
                                 !.requests[i].pc = "passed"]
    /\ UNCHANGED << scan_vars, score_vars, rule_vars, frame_vars >>

NextRate == Receive \/ CacheGet \/ CacheSet

SpecRate == InitRate /\ [][NextRate]_vars

(***************************************************************************)
(* Properties of RateLimitMiddleware, under SpecRate.                      *)
(***************************************************************************)

\* the limited requests of one (api-key, path) pair that were handed on
PassedFor(api_key, path) ==
    {i \in 1..Len(limiter.requests) :
        /\ limiter.requests[i].limited
        /\ limiter.requests[i].api_key = api_key
        /\ limiter.requests[i].path = path
        /\ limiter.requests[i].pc = "passed"}

\* C26: for each (api-key, path) pair, RateLimitMiddleware passes at most
\* `limit` requests to the application within one rate period, under every
\* interleaving of concurrent requests: the read of the counter and the
\* write of counter+1 of two requests never combine so that more than
\* `limit` requests are admitted.
C26_AtMostLimitPass ==
    \A i \in 1..Len(limiter.requests) :
        limiter.requests[i].limited =>
            Cardinality(PassedFor(limiter.requests[i].api_key,
                                  limiter.requests[i].path))
                <= limiter.requests[i].limit
====
